---- MODULE Spec2Model ----
(***************************************************************************)
(* broadside register_and_stitch: the thread-pool task executors, the      *)
(* lock-serialised tile reader, the negative sampling of                   *)
(* ParallelEdgeAligner.compute_threshold, the rejection pass of            *)
(* ParallelEdgeAligner.register_all, ParallelLayerAligner.register_all,    *)
(* ParallelMosaic.assemble_channel_parallel, ParallelTiffListWriter.run,   *)
(* the aligner steps of process_single, compute_threshold with its random  *)
(* state and its register tasks, and utils.parallel.dask_session.          *)
(*                                                                         *)
(* Each part of the program has a specification of its own (SpecExec,      *)
(* SpecReader, ...) over the shared variables; the variables a part does   *)
(* not use stay at their idle values.                                      *)
(***************************************************************************)
EXTENDS Integers, Sequences, FiniteSets, TLC

\* ------------------------------------------------------------------ bounds
\* Number of threads that call reader.read.
MaxThreads == 3
\* Number of ThreadSafeBioformatsReader instances (one per cycle).
MaxReaders == 2
\* Largest tile height and width metadata.size that is explored.
MaxTileSize == 4
\* Largest error score the registration primitive returns.
MaxError == 2
\* Largest max_shift_pixels that is explored.
MaxShiftPixels == 1
\* Largest number of canvas rows (mosaic height) that is explored.
MaxRows == 3
\* Largest number of canvas columns (mosaic width) that is explored.
MaxCols == 2
\* Largest number of tiles (len(positions)) of a mosaic that is explored.
MaxTiles == 2
\* Largest number of input files (cycles) that is explored.
MaxFiles == 3
\* Largest len(args) of one executor call.
MaxTasks == 3
\* Largest worker count n_workers that is explored.
MaxWorkers == 2
\* Number of reader.read calls a run makes.
MaxReads == 4
\* Largest seed an unseeded RandomState() takes from the system.
MaxSeed == 2
\* Largest number of sampled strip pairs handed to the executor.
MaxSamples == 4

\* ----------------------------------------------------------------- values
\* Python's None: an unfilled results slot, no propagating exception.
None == "None"
\* What a task may return.
Values == {"a", "b"}
\* No task: the value of exc while no exception propagates.
NoTask == -1
\* What the call has handed back to its caller: nothing yet (or never, when it
\* raised), the results list, or None (a function that ends without return).
NoReturn == [kind |-> "NoReturn", list |-> <<>>]
ReturnList(l) == [kind |-> "list", list |-> l]
ReturnNone == [kind |-> "None", list |-> <<>>]

VARIABLES
    \* --- execute_parallel / execute_parallel_with_ordered_results
    variant,      \* "ordered" | "unordered": which executor function is called
    n_workers,    \* module-level n_workers at call time
    nargs,        \* len(args)
    submitted,    \* how many executor.submit calls the comprehension has made
    tstate,       \* per task: unsubmitted | pending | running | done | failed
    tval,         \* per task: the value the future holds (None before)
    cpc,          \* the calling thread: submit | iterate | shutdown | returned | raised
    initial,      \* as_completed: the set of futures found finished when it started
    waiterq,      \* as_completed: waiter.finished_futures, in completion order
    yorder,       \* the futures as_completed has yielded so far, in order
    results,      \* the results list (ordered variant)
    pbar,         \* tqdm's count of pbar.update(1) calls
    exc,          \* the task whose exception future.result() re-raised, or NoTask
    retval,       \* what the call returned, NoReturn before and after raising
    corder,       \* history: the tasks in the order they finished
    \* --- ThreadSafeBioformatsReader
    lock,         \* ThreadSafeBioformatsReader.lock: the thread holding it, or NoThread
    rpc,          \* per thread: idle | waiting | locked | inread | leaving
    rreader,      \* per thread: the reader instance whose read it called
    rraised,      \* per thread: whether its underlying read raised
    reads_todo,   \* reader.read calls the run has still to make
    \* --- ParallelEdgeAligner.compute_threshold
    layout,       \* the layer: num_tiles, neighbors_graph.edges, intersection shapes
    size0,        \* metadata.size[0], the tile height (tiles are square)
    ct_pc,        \* start | sampling | done | raised
    w,            \* strip width
    max_offset,   \* metadata.size[0] - w
    n,            \* number of strip pairs to draw
    pair_i,       \* the loop index i: rows 0 .. i-1 of pairs, offsets are written
    current_try,  \* index of the try being made for pair i
    written,      \* the row <<t1, t2, o1, o2>> the last step wrote to pairs,
                  \* offsets; NoRow when the last step wrote none
    warned,       \* whether the last step called warn_data
    ct_tasks,     \* register tasks handed to the ordered executor
    ct_reads,     \* reader.read calls made by register tasks
    errors_len,   \* len(errors_negative_sampled), Unset before it is assigned
    max_error,    \* the threshold: NoError (unset), Inf or Fin(e)
    \* --- ParallelEdgeAligner.register_all
    reg_pc,       \* idle | start | executing | done
    cache,        \* self._cache: edge -> [shift, error], the alignment records
    all_errors,   \* self.all_errors: edge -> error, NoErrors before it is assigned
    max_shift_pixels, \* self.max_shift_pixels
    \* --- ParallelLayerAligner.register_all
    lay_pc,       \* idle | start | executing | done | raised
    num_images,   \* self.metadata.num_images of the layer
    shifts,       \* self.shifts: tile -> shift, <<>> before it is assigned
    errors,       \* self.errors: tile -> error, <<>> before it is assigned
    \* --- ParallelMosaic.assemble_channel_parallel, one call per index
    mosaics,      \* the mosaics: shape, positions, flip_mosaic_x, flip_mosaic_y,
                  \* channels
    heap,         \* the arrays that exist: [shape, rows]; a cell holds the
                  \* images blended into it, in order
    acall,        \* per call: its arguments [mosaic, channel, out]
    as_pc,        \* per call: start | pasting | returned | shape_error |
                  \* read_error
    as_out,       \* per call: the array `out` refers to, NoCanvas before
    as_si,        \* per call: tiles pasted so far (the loop index si)
    as_reads,     \* per call: reader.read calls made
    unflipped,    \* history, per call: the rows of out when the tile loop ended
    writers,      \* history, per array: the calls that have written to it
    \* --- ParallelTiffListWriter.run
    wr_pc,        \* idle | start | executing | done
    path_format,  \* self.path_format
    wargs,        \* args: one (cycle, mosaic, channel, path, tqdm_ind) per task
    tiff_writes,  \* history: the planes written, [task, path, data]
    \* --- process_single
    ps_pc,        \* idle | start | constructed | thumbnail | threshold |
                  \* registered | aligned | layers | done
    num_files,    \* len(filepaths)
    args_thumbnail,     \* aligner_args["do_make_thumbnail"]: absent | true | false
    do_make_thumbnail,  \* edge_aligner.do_make_thumbnail
    thumbnail_built,    \* whether edge_aligner.reader.thumbnail has been set
    thumbnail_reads,    \* reader.read calls made for the edge aligner's thumbnail
    ps_cycle,     \* the loop variable cycle of the layer loop
    ps_mosaics,   \* len(mosaics)
    \* --- dask_session
    ds_pc,        \* new | client_made | report_made | client_entered | body |
                  \* exit_report | exit_client | exited | exit_raised |
                  \* enter_raised
    memory_limit, \* self.memory_limit
    n_cpus,       \* self.n_cpus, NoCpus for None
    filename,     \* self.filename, NoFile for None
    client,       \* self.client: the arguments it was built with, NoClient before
    report,       \* self.report: unset | nullcontext | performance_report
    ds_args,      \* the *args of __exit__: "none" or "error", the body's exception
    report_raised,  \* whether self.report.__exit__ raised
    ds_raised,    \* the exception __exit__ lets out: none | report | client
    ds_events,    \* history: the __enter__ and __exit__ calls made on the
                  \* client and the report, in order
    \* --- compute_threshold, the random state and the sampled arrays
    randomize,    \* self.randomize
    seed,         \* the seed of random_state, Unset before it is constructed
    rng_pos,      \* how many numbers random_state has produced
    pairs,        \* the rows <<t1, t2, o1, o2>> of pairs and offsets written
    errors_negative_sampled  \* self.errors_negative_sampled, <<>> before

execVars == <<variant, n_workers, nargs, submitted, tstate, tval, cpc, initial,
              waiterq, yorder, results, pbar, exc, retval, corder>>

readerVars == <<lock, rpc, rreader, rraised, reads_todo>>

samplerVars == <<layout, size0, ct_pc, w, max_offset, n, pair_i, current_try,
                 written, warned, ct_tasks, ct_reads, errors_len, max_error>>

regVars == <<reg_pc, cache, all_errors, max_shift_pixels>>

layerVars == <<lay_pc, num_images, shifts, errors>>

\* The variables of the parts that only call the executors and the reader.
mosaicVars == <<mosaics, heap, acall, as_pc, as_out, as_si, as_reads, unflipped,
                writers>>

writerVars == <<wr_pc, path_format, wargs, tiff_writes>>

pipeVars == <<ps_pc, num_files, args_thumbnail, do_make_thumbnail,
              thumbnail_built, thumbnail_reads, ps_cycle, ps_mosaics>>

sessionVars == <<ds_pc, memory_limit, n_cpus, filename, client, report, ds_args,
                 report_raised, ds_raised, ds_events>>

rngVars == <<randomize, seed, rng_pos, pairs, errors_negative_sampled>>

tailVars == <<layerVars, mosaicVars, writerVars, pipeVars, sessionVars,
              rngVars>>

vars == <<execVars, readerVars, samplerVars, regVars, tailVars>>

\* The variables the executor itself does not touch; a task may write cache.
nonExecVars == <<readerVars, samplerVars, reg_pc, all_errors, max_shift_pixels,
                 tailVars>>

\* The variables of the parts a read does not touch.
nonReaderVars == <<execVars, samplerVars, regVars, tailVars>>

\* The variables of the parts compute_threshold does not touch.
nonSamplerVars == <<execVars, readerVars, regVars, tailVars>>

\* -------------------------------------------------------------- the reader
\* The threads that read tiles: pool workers and the calling thread.
Threads == 1 .. MaxThreads

\* The reader instances process_single creates, one per cycle.
Readers == 1 .. MaxReaders

\* No thread: the value of lock while it is free.
NoThread == 0

\* No read in progress anywhere and the lock free.
ReaderIdle ==
    /\ lock = NoThread
    /\ rpc = [t \in Threads |-> "idle"]
    /\ rreader = [t \in Threads |-> 1]
    /\ rraised = [t \in Threads |-> FALSE]
    /\ reads_todo = 0

\* An attribute or array length that has not been assigned.
Unset == -1

\* The threshold max_error: not assigned, np.inf, or a finite error score.
NoError == [kind |-> "unset", v |-> 0]
Inf == [kind |-> "inf", v |-> 0]
Fin(e) == [kind |-> "fin", v |-> e]

\* The error scores utils.register may return.
ErrorValues == 0 .. MaxError

\* No row written by the last step.
NoRow == <<>>

\* The aligner before compute_threshold is called.
SamplerIdle ==
    /\ ct_pc = "start"
    /\ w = Unset
    /\ max_offset = Unset
    /\ n = Unset
    /\ pair_i = 0
    /\ current_try = 0
    /\ written = NoRow
    /\ warned = FALSE
    /\ ct_tasks = 0
    /\ ct_reads = 0
    /\ errors_len = Unset
    /\ max_error = NoError

\* No edge aligner: the single-tile layer, untouched.
SamplerUnused ==
    /\ layout = [name |-> "single", num_tiles |-> 1, edges |-> {}, shape |-> <<>>]
    /\ size0 = 2
    /\ SamplerIdle

\* all_errors before register_all assigns it.
NoErrors == <<>>

\* The aligner's record table before register_all: self._cache = {}.
RegIdle ==
    /\ reg_pc = "idle"
    /\ cache = <<>>
    /\ all_errors = NoErrors
    /\ max_shift_pixels = 1

\* The layer aligner before register_all is called.
LayerIdle ==
    /\ lay_pc = "idle"
    /\ num_images = 0
    /\ shifts = <<>>
    /\ errors = <<>>

\* The parts that only call the executors and the reader, before they run.
\* No array: the value of `out` when the caller passes none.
NoCanvas == 0

\* No call of assemble_channel_parallel and no mosaic.
MosaicIdle ==
    /\ mosaics = <<>>
    /\ heap = <<>>
    /\ acall = <<>>
    /\ as_pc = <<>>
    /\ as_out = <<>>
    /\ as_si = <<>>
    /\ as_reads = <<>>
    /\ unflipped = <<>>
    /\ writers = <<>>

\* No writer.
WriterIdle ==
    /\ wr_pc = "idle"
    /\ path_format = "cycle_channel"
    /\ wargs = <<>>
    /\ tiff_writes = {}

\* process_single is not running.
PipeIdle ==
    /\ ps_pc = "idle"
    /\ num_files = 1
    /\ args_thumbnail = "absent"
    /\ do_make_thumbnail = TRUE
    /\ thumbnail_built = FALSE
    /\ thumbnail_reads = 0
    /\ ps_cycle = 0
    /\ ps_mosaics = 0

\* self.n_cpus is None, self.filename is None, no client yet.
NoCpus == 0
NoFile == "None"
NoClient == [memory_limit |-> "unset", n_workers |-> 0, threads_per_worker |-> 0]

\* No dask_session.
SessionIdle ==
    /\ ds_pc = "idle"
    /\ memory_limit = "auto"
    /\ n_cpus = NoCpus
    /\ filename = NoFile
    /\ client = NoClient
    /\ report = "unset"
    /\ ds_args = "none"
    /\ report_raised = FALSE
    /\ ds_raised = "none"
    /\ ds_events = <<>>

\* No random state and no sampled array.
RngIdle ==
    /\ randomize = FALSE
    /\ seed = Unset
    /\ rng_pos = 0
    /\ pairs = <<>>
    /\ errors_negative_sampled = <<>>

TailIdle ==
    LayerIdle /\ MosaicIdle /\ WriterIdle /\ PipeIdle /\ SessionIdle /\ RngIdle

\* ------------------------------------------------------------ the executor
\* enumerate(args): the submission indices.
Tasks == 0 .. (nargs - 1)

Finished(i) == tstate[i] \in {"done", "failed"}

Running == {i \in Tasks : tstate[i] = "running"}

AllFinished == \A i \in Tasks : Finished(i)

\* No executor call in progress.
ExecIdle ==
    /\ variant = "unordered"
    /\ nargs = 0
    /\ submitted = 0
    /\ tstate = <<>>
    /\ tval = <<>>
    /\ cpc = "returned"
    /\ initial = {}
    /\ waiterq = <<>>
    /\ yorder = <<>>
    /\ results = <<>>
    /\ pbar = 0
    /\ exc = NoTask
    /\ retval = NoReturn
    /\ corder = <<>>

\* The state at the call: nothing submitted, results = [None for _ in args].
InitExec ==
    /\ variant \in {"ordered", "unordered"}
    /\ n_workers \in 1 .. MaxWorkers
    /\ nargs \in 0 .. MaxTasks
    /\ submitted = 0
    /\ tstate = [i \in Tasks |-> "unsubmitted"]
    /\ tval = [i \in Tasks |-> None]
    /\ cpc = "submit"
    /\ initial = {}
    /\ waiterq = <<>>
    /\ yorder = <<>>
    /\ results = [i \in Tasks |-> None]
    /\ pbar = 0
    /\ exc = NoTask
    /\ retval = NoReturn
    /\ corder = <<>>
    /\ ReaderIdle
    /\ SamplerUnused
    /\ RegIdle
    /\ TailIdle

\* futures = {executor.submit(func, *arg): i for i, arg in enumerate(args)}:
\* one submit per step, in index order; workers may already run earlier tasks.
Submit ==
    /\ cpc = "submit"
    /\ submitted < nargs
    /\ tstate' = [tstate EXCEPT ![submitted] = "pending"]
    /\ submitted' = submitted + 1
    /\ UNCHANGED <<variant, n_workers, nargs, tval, cpc, initial, waiterq,
                   yorder, results, pbar, exc, retval, corder>>
    /\ UNCHANGED nonExecVars
    /\ UNCHANGED cache

\* Mutant: a pool that starts a thread per queued task, ignoring max_workers.
WorkerAlwaysFree == TRUE

\* A pool thread may take a task while fewer than max_workers tasks run.
WorkerFree == Cardinality(Running) < n_workers

\* ThreadPoolExecutor(max_workers=n_workers): a pool thread takes the oldest
\* queued work item (the work queue is FIFO).
StartTask(i) ==
    /\ tstate[i] = "pending"
    /\ \A j \in Tasks : j < i => tstate[j] # "pending"
    /\ WorkerFree
    /\ tstate' = [tstate EXCEPT ![i] = "running"]
    /\ UNCHANGED <<variant, n_workers, nargs, submitted, tval, cpc, initial,
                   waiterq, yorder, results, pbar, exc, retval, corder>>
    /\ UNCHANGED nonExecVars
    /\ UNCHANGED cache

\* Mutant: a completion that is never reported to the waiter.
NotifyDropped(i) == waiterq

\* A finished future is handed to as_completed's waiter once it is installed
\* (the for loop is running); the waiter is removed when the generator closes.
Notify(i) == IF cpc = "iterate" THEN Append(waiterq, i) ELSE waiterq

\* neighbors_graph.edges in the order register_all walks them: the place of
\* edge e among the edges.
EdgeRank(e) ==
    Cardinality({f \in layout.edges :
                    f[1] < e[1] \/ (f[1] = e[1] /\ f[2] < e[2])})

\* args[i] of register_all: the edge task i registers.
ArgEdge(i) == CHOOSE e \in layout.edges : EdgeRank(e) = i

\* What running func(*arg) leaves behind besides its return value:
\* register_pair stores its result, self._cache[key] = (shift, error), under
\* the edge it was given; the other tasks leave the record table alone.
TaskEffect(i, v) ==
    cache' = IF reg_pc = "executing"
             THEN [e \in DOMAIN cache \cup {ArgEdge(i)} |->
                      IF e = ArgEdge(i) THEN v ELSE cache[e]]
             ELSE cache

\* func(*arg) returns v: the future holds v.
TaskReturns(i, v) ==
    /\ tstate[i] = "running"
    /\ tstate' = [tstate EXCEPT ![i] = "done"]
    /\ tval' = [tval EXCEPT ![i] = v]
    /\ TaskEffect(i, v)
    /\ waiterq' = Notify(i)
    /\ corder' = Append(corder, i)
    /\ UNCHANGED <<variant, n_workers, nargs, submitted, cpc, initial, yorder,
                   results, pbar, exc, retval>>
    /\ UNCHANGED nonExecVars

\* func(*arg) raises: the future holds the exception.
TaskRaises(i) ==
    /\ tstate[i] = "running"
    /\ tstate' = [tstate EXCEPT ![i] = "failed"]
    /\ waiterq' = Notify(i)
    /\ corder' = Append(corder, i)
    /\ UNCHANGED <<variant, n_workers, nargs, submitted, tval, cpc, initial,
                   yorder, results, pbar, exc, retval>>
    /\ UNCHANGED nonExecVars
    /\ UNCHANGED cache

\* as_completed(futures) starts once the comprehension has submitted all
\* tasks: the futures already finished are collected into a set, the rest are
\* reported by the waiter as they finish.
AsCompletedStart ==
    /\ cpc = "submit"
    /\ submitted = nargs
    /\ initial' = {i \in Tasks : Finished(i)}
    /\ cpc' = "iterate"
    /\ UNCHANGED <<variant, n_workers, nargs, submitted, tstate, tval, waiterq,
                   yorder, results, pbar, exc, retval, corder>>
    /\ UNCHANGED nonExecVars
    /\ UNCHANGED cache

\* The futures as_completed has yielded.
Yielded == {yorder[k] : k \in 1 .. Len(yorder)}

\* The futures as_completed may yield next: any of the set found finished at
\* its start (a set has no order), then the waiter's list in finishing order.
NextYield ==
    IF initial \ Yielded # {} THEN initial \ Yielded
    ELSE IF waiterq # <<>> THEN {Head(waiterq)}
    ELSE {}

\* Mutant: results filled in arrival order (results.append) instead of by index.
ResultIndexByArrival(f) == Len(yorder)

\* The slot of results that receives the value of yielded future f:
\* index = futures[future].
ResultIndex(f) == f

\* Mutant: the bar advanced by the number of futures finished so far.
PbarUpdateByFinished(p) == p + Cardinality({i \in Tasks : Finished(i)})

\* pbar.update(1)
PbarUpdate(p) == p + 1

\* One pass of the for loop over as_completed(futures).
\* ordered:   results[index] = future.result(); pbar.update(1)
\*            (future.result() re-raises the task's exception, which leaves
\*            the loop and both with blocks)
\* unordered: pbar.update(1)
LoopBody(f) ==
    /\ cpc = "iterate"
    /\ f \in NextYield
    /\ waiterq' = IF f \in initial THEN waiterq ELSE Tail(waiterq)
    /\ yorder' = Append(yorder, f)
    /\ IF variant = "ordered" /\ tstate[f] = "failed"
       THEN /\ exc' = f
            /\ cpc' = "shutdown"
            /\ UNCHANGED <<results, pbar>>
       ELSE /\ results' = IF variant = "ordered"
                          THEN [results EXCEPT ![ResultIndex(f)] = tval[f]]
                          ELSE results
            /\ pbar' = PbarUpdate(pbar)
            /\ UNCHANGED <<exc, cpc>>
    /\ UNCHANGED <<variant, n_workers, nargs, submitted, tstate, tval, initial,
                   retval, corder>>
    /\ UNCHANGED nonExecVars
    /\ UNCHANGED cache

\* as_completed is exhausted when every future has been yielded.
LoopEnd ==
    /\ cpc = "iterate"
    /\ Len(yorder) = nargs
    /\ cpc' = "shutdown"
    /\ UNCHANGED <<variant, n_workers, nargs, submitted, tstate, tval, initial,
                   waiterq, yorder, results, pbar, exc, retval, corder>>
    /\ UNCHANGED nonExecVars
    /\ UNCHANGED cache

\* Mutant: shutdown(wait=False), the with block left while tasks still run.
ShutdownNoWait == TRUE

\* What ThreadPoolExecutor.__exit__ waits for: shutdown(wait=True) joins the
\* pool threads, which first run every queued work item.
ShutdownReady == AllFinished

\* Leaving `with ThreadPoolExecutor(...)`: then `return results` (ordered), the
\* end of the function (unordered), or the exception reaches the caller.
Shutdown ==
    /\ cpc = "shutdown"
    /\ ShutdownReady
    /\ cpc' = IF exc = NoTask THEN "returned" ELSE "raised"
    /\ retval' = IF exc # NoTask THEN NoReturn
                 ELSE IF variant = "ordered" THEN ReturnList(results)
                 ELSE ReturnNone
    /\ UNCHANGED <<variant, n_workers, nargs, submitted, tstate, tval, initial,
                   waiterq, yorder, results, pbar, exc, corder>>
    /\ UNCHANGED nonExecVars
    /\ UNCHANGED cache

NextExec ==
    \/ Submit
    \/ \E i \in Tasks : StartTask(i)
    \/ \E i \in Tasks, v \in Values : TaskReturns(i, v)
    \/ \E i \in Tasks : TaskRaises(i)
    \/ AsCompletedStart
    \/ \E f \in Tasks : LoopBody(f)
    \/ LoopEnd
    \/ Shutdown

\* Every task terminates and the threads are scheduled: weak fairness.
SpecExec == InitExec /\ [][NextExec]_vars /\ WF_vars(NextExec)

\* ------------------------------------------------------- the edge aligner
\* The layers explored. edges holds each neighbors_graph edge once, as
\* <<a, b>> with a < b; shape gives the nominal intersection of an edge as
\* <<rows, columns>>, 0 standing for the full tile extent.
\*   single: one tile, no edge
\*   pair:   two tiles, one above the other
\*   column: three tiles stacked, overlapping by 1 and by 2 rows
\*   corner: three tiles in an L, each overlapping both others
Layouts ==
    { [name |-> "single", num_tiles |-> 1, edges |-> {},
       shape |-> <<>>],
      [name |-> "pair", num_tiles |-> 2, edges |-> {<<0, 1>>},
       shape |-> (<<0, 1>> :> <<1, 0>>)],
      [name |-> "column", num_tiles |-> 3, edges |-> {<<0, 1>>, <<1, 2>>},
       shape |-> (<<0, 1>> :> <<1, 0>>) @@ (<<1, 2>> :> <<2, 0>>)],
      [name |-> "corner", num_tiles |-> 3,
       edges |-> {<<0, 1>>, <<0, 2>>, <<1, 2>>},
       shape |-> (<<0, 1>> :> <<0, 1>>) @@ (<<0, 2>> :> <<1, 0>>)
                 @@ (<<1, 2>> :> <<1, 1>>)] }

Min2(a, b) == IF a < b THEN a ELSE b
Max2(a, b) == IF a > b THEN a ELSE b
Abs(x) == IF x < 0 THEN -x ELSE x

\* self.neighbors_graph.edges
Edges == layout.edges

\* (t1, t2) in edges: the graph is undirected.
InEdges(t1, t2) == <<t1, t2>> \in Edges \/ <<t2, t1>> \in Edges

\* The edge joining two neighbours, as it is held in Edges.
EdgeOf(t1, t2) == IF <<t1, t2>> \in Edges THEN <<t1, t2>> ELSE <<t2, t1>>

\* self.intersection(t1, t2).shape
IntersectionShape(e) ==
    LET sh == layout.shape[e]
    IN  <<IF sh[1] = 0 THEN size0 ELSE sh[1], IF sh[2] = 0 THEN size0 ELSE sh[2]>>

\* widths: intersection(t1, t2).shape.min() of every edge.
Widths == {Min2(IntersectionShape(e)[1], IntersectionShape(e)[2]) : e \in Edges}

\* Mutant: the smallest of the widths taken, widths.min().
StripWidthSmallest == CHOOSE x \in Widths : \A y \in Widths : x <= y

\* widths.max()
StripWidth == CHOOSE x \in Widths : \A y \in Widths : y <= x

\* num_tiles * (num_tiles - 1) // 2 - len(edges)
NumDistantPairs ==
    (layout.num_tiles * (layout.num_tiles - 1)) \div 2 - Cardinality(Edges)

\* n = 1000 if num_distant_pairs > 8 else (num_distant_pairs + 1) * 10
NumPairs == IF NumDistantPairs > 8 THEN 1000 ELSE (NumDistantPairs + 1) * 10

\* max_tries = 100
max_tries == 100

\* its = self.intersection(t1, t2, np.repeat(w, 2)): the intersection grown
\* to at least w rows and w columns.
ItsShape(t1, t2) ==
    LET sh == IntersectionShape(EdgeOf(t1, t2))
    IN  <<Max2(sh[1], w), Max2(sh[2], w)>>

\* its.offsets[:, 0]: the first row of the intersection in t1 and in t2. The
\* intersection lies at the lower end of the first tile of the edge and at
\* the upper end of the second.
ItsOffsets(t1, t2) ==
    LET low == Max2(size0 - ItsShape(t1, t2)[1], 0)
    IN  IF <<t1, t2>> \in Edges THEN <<low, 0>> ELSE <<0, low>>

\* Mutant: neighbouring tiles accepted whatever the offsets.
AcceptsAllNeighbors(t1, t2, o1, o2) ==
    \/ t1 # t2
    \/ t1 = t2 /\ Abs(o1 - o2) > w

\* The test that ends the retry loop (break).
Accepts(t1, t2, o1, o2) ==
    IF t1 # t2 /\ ~InEdges(t1, t2) THEN TRUE
    ELSE IF t1 = t2 /\ Abs(o1 - o2) > w THEN TRUE
    ELSE IF InEdges(t1, t2)
         THEN LET its == ItsShape(t1, t2)
                  ioff == ItsOffsets(t1, t2)
              IN  \/ its[1] > its[2]
                  \/ o1 < ioff[1] - w
                  \/ o1 > ioff[1] + w
                  \/ o2 < ioff[2] - w
                  \/ o2 > ioff[2] + w
         ELSE FALSE

\* Mutant: a retry loop that allows one try too many.
ExhaustedLate(try) == try = max_tries

\* for current_try in range(max_tries): try is the last one.
Exhausted(try) == try = max_tries - 1

\* Mutant: the sampling skipped only when there is no edge at all.
NoEdges == Cardinality(Edges) < 1

\* if len(edges) <= 1: not enough tiles overlap to matter.
TooFewEdges == Cardinality(Edges) <= 1

\* compute_threshold up to the sampling loop, n being count: the early
\* return, or w, max_offset and n.
ComputeThresholdBeginOf(count) ==
    /\ ct_pc = "start"
    /\ IF TooFewEdges
       THEN /\ errors_len' = 0
            /\ max_error' = Inf
            /\ ct_pc' = "done"
            /\ UNCHANGED <<w, max_offset, n>>
       ELSE /\ w' = StripWidth
            /\ max_offset' = size0 - StripWidth
            /\ n' = count
            /\ ct_pc' = "sampling"
            /\ UNCHANGED <<errors_len, max_error>>
    /\ UNCHANGED <<layout, size0, pair_i, current_try, written, warned, ct_tasks,
                   ct_reads>>
    /\ UNCHANGED nonSamplerVars

\* compute_threshold up to the sampling loop.
ComputeThresholdBegin == ComputeThresholdBeginOf(NumPairs)

\* One pass of the retry loop: a draw of t1, t2 = randint(num_images, size=2)
\* and o1, o2 = randint(max_offset, size=2), the test, and, when the loop
\* ends by break or by exhaustion, warn_data (exhaustion only) and
\* pairs[pair_i] = t1, t2; offsets[pair_i] = o1, o2.
DrawStep(t1, t2, o1, o2) ==
    /\ ct_pc = "sampling"
    /\ pair_i < n
    /\ max_offset > 0
    /\ IF Accepts(t1, t2, o1, o2)
       THEN /\ written' = <<t1, t2, o1, o2>>
            /\ warned' = FALSE
            /\ pair_i' = pair_i + 1
            /\ current_try' = 0
       ELSE IF Exhausted(current_try)
       THEN /\ written' = <<t1, t2, o1, o2>>
            /\ warned' = TRUE
            /\ pair_i' = pair_i + 1
            /\ current_try' = 0
       ELSE /\ written' = NoRow
            /\ warned' = FALSE
            /\ pair_i' = pair_i
            /\ current_try' = current_try + 1
    /\ UNCHANGED <<layout, size0, ct_pc, w, max_offset, n, ct_tasks, ct_reads,
                   errors_len, max_error>>

\* One pass of the retry loop, whatever the random state draws.
Draw(t1, t2, o1, o2) ==
    /\ DrawStep(t1, t2, o1, o2)
    /\ UNCHANGED nonSamplerVars

\* random_state.randint(max_offset, size=2) raises ValueError when
\* max_offset <= 0.
DrawRaises ==
    /\ ct_pc = "sampling"
    /\ pair_i < n
    /\ max_offset <= 0
    /\ ct_pc' = "raised"
    /\ UNCHANGED <<layout, size0, w, max_offset, n, pair_i, current_try, written,
                   warned, ct_tasks, ct_reads, errors_len, max_error>>
    /\ UNCHANGED nonSamplerVars

\* After the loop: the n register tasks run in the ordered executor, two
\* reads each, and the threshold is the percentile of their errors, one of
\* the error scores or a value between two of them.
RegisterStrips(e) ==
    /\ ct_pc = "sampling"
    /\ pair_i = n
    /\ ct_tasks' = n
    /\ ct_reads' = 2 * n
    /\ errors_len' = n
    /\ max_error' = Fin(e)
    /\ ct_pc' = "done"
    /\ written' = NoRow
    /\ warned' = FALSE
    /\ UNCHANGED <<layout, size0, w, max_offset, n, pair_i, current_try>>
    /\ UNCHANGED nonSamplerVars

\* After the loop: a register task raises (a read fails) and the ordered
\* executor re-raises it.
RegisterStripsRaises ==
    /\ ct_pc = "sampling"
    /\ pair_i = n
    /\ ct_tasks' = n
    /\ ct_pc' = "raised"
    /\ written' = NoRow
    /\ warned' = FALSE
    /\ UNCHANGED <<layout, size0, w, max_offset, n, pair_i, current_try,
                   ct_reads, errors_len, max_error>>
    /\ UNCHANGED nonSamplerVars

\* Mutant: offsets drawn up to and including max_offset.
OffsetRangeInclusive(mo) == 0 .. mo

\* random_state.randint(max_offset, size=2): integers from 0 up to, not
\* including, max_offset.
OffsetRange(mo) == 0 .. (mo - 1)

\* img[offset : offset + w, :]: the rows of the tile the slice takes.
StripRows(o) == {r \in 0 .. (size0 - 1) : o <= r /\ r < o + w}

\* The tile sizes explored: from the largest intersection side of the layouts.
TileSizes == 2 .. MaxTileSize

InitSampler ==
    /\ layout \in Layouts
    /\ size0 \in TileSizes
    /\ SamplerIdle
    /\ ExecIdle
    /\ n_workers = 1
    /\ ReaderIdle
    /\ RegIdle
    /\ TailIdle

NextSampler ==
    \/ ComputeThresholdBegin
    \/ \E t1 \in 0 .. (layout.num_tiles - 1), t2 \in 0 .. (layout.num_tiles - 1),
          o1 \in OffsetRange(max_offset), o2 \in OffsetRange(max_offset) :
            Draw(t1, t2, o1, o2)
    \/ DrawRaises
    \/ \E e \in ErrorValues : RegisterStrips(e)
    \/ RegisterStripsRaises

\* The loop is sequential code: it keeps running.
SpecSampler == InitSampler /\ [][NextSampler]_vars /\ WF_vars(NextSampler)

\* ------------------------------------------ ParallelEdgeAligner.register_all
\* The shifts register_pair may compute, as <<dy, dx>>: one that reaches the
\* largest bound on both axes, one beyond it on one axis.
Shifts == {<<MaxShiftPixels, MaxShiftPixels>>, <<-(MaxShiftPixels + 1), 0>>}

\* What register_pair may return and store: (shift, error).
RegValues == [shift : Shifts, error : {Fin(e) : e \in ErrorValues}]

\* a > b on error scores, np.inf included.
Greater(a, b) ==
    IF a.kind = "inf" THEN b.kind = "fin"
    ELSE b.kind = "fin" /\ a.v > b.v

\* Mutant: the shift bound forgotten, only the error tested.
RejectedByErrorOnly(v) == Greater(v.error, max_error)

\* v[1] > self.max_error or np.any(np.abs(v[0]) > self.max_shift_pixels)
Rejected(v) ==
    \/ Greater(v.error, max_error)
    \/ \E c \in 1 .. 2 : Abs(v.shift[c]) > max_shift_pixels

\* Mutant: the whole record reset on rejection, the shift zeroed.
RejectedRecordReset(v) == [shift |-> <<0, 0>>, error |-> Inf]

\* self._cache[k] = (v[0], np.inf)
RejectedRecord(v) == [shift |-> v.shift, error |-> Inf]

\* The state execute_parallel / execute_parallel_with_ordered_results starts
\* in when called with k tasks: results = [None for _ in range(len(args))].
CallExecutor(v, k) ==
    /\ variant' = v
    /\ nargs' = k
    /\ submitted' = 0
    /\ tstate' = [j \in 0 .. (k - 1) |-> "unsubmitted"]
    /\ tval' = [j \in 0 .. (k - 1) |-> None]
    /\ cpc' = "submit"
    /\ initial' = {}
    /\ waiterq' = <<>>
    /\ yorder' = <<>>
    /\ results' = [j \in 0 .. (k - 1) |-> None]
    /\ pbar' = 0
    /\ exc' = NoTask
    /\ retval' = NoReturn
    /\ corder' = <<>>
    /\ UNCHANGED n_workers

\* register_all up to the executor call: one (t1, t2) argument per edge, then
\* execute_parallel(self.register_pair, args=args, ...).
RegisterAllBegin ==
    /\ reg_pc = "start"
    /\ CallExecutor("unordered", Cardinality(layout.edges))
    /\ reg_pc' = "executing"
    /\ UNCHANGED <<cache, all_errors, max_shift_pixels>>
    /\ UNCHANGED <<readerVars, samplerVars, tailVars>>

\* After execute_parallel has returned: all_errors, then the loop that sets
\* the error of every rejected record to infinity.
RejectPass ==
    /\ reg_pc = "executing"
    /\ cpc = "returned"
    /\ all_errors' = [e \in DOMAIN cache |-> cache[e].error]
    /\ cache' = [e \in DOMAIN cache |->
                    IF Rejected(cache[e])
                    THEN RejectedRecord(cache[e])
                    ELSE cache[e]]
    /\ reg_pc' = "done"
    /\ UNCHANGED max_shift_pixels
    /\ UNCHANGED <<execVars, readerVars, samplerVars, tailVars>>

\* The aligner after compute_threshold has returned with threshold Fin(e),
\* or Inf when it returned early.
AfterThreshold(e) ==
    /\ ct_pc = "done"
    /\ current_try = 0
    /\ written = NoRow
    /\ warned = FALSE
    /\ IF TooFewEdges
       THEN /\ w = Unset /\ max_offset = Unset /\ n = Unset
            /\ pair_i = 0
            /\ ct_tasks = 0 /\ ct_reads = 0
            /\ errors_len = 0
            /\ max_error = Inf
       ELSE /\ w = StripWidth /\ max_offset = size0 - StripWidth /\ n = NumPairs
            /\ pair_i = NumPairs
            /\ ct_tasks = NumPairs /\ ct_reads = 2 * NumPairs
            /\ errors_len = NumPairs
            /\ max_error = Fin(e)

InitRegister ==
    /\ layout \in Layouts
    /\ size0 = MaxTileSize
    /\ \E e \in ErrorValues : AfterThreshold(e)
    /\ ExecIdle
    /\ n_workers = MaxWorkers
    /\ ReaderIdle
    /\ reg_pc = "start"
    /\ cache = <<>>
    /\ all_errors = NoErrors
    /\ max_shift_pixels \in 1 .. MaxShiftPixels
    /\ TailIdle

NextRegister ==
    \/ RegisterAllBegin
    \/ Submit
    \/ \E i \in Tasks : StartTask(i)
    \/ \E i \in Tasks, v \in RegValues : TaskReturns(i, v)
    \/ \E i \in Tasks : TaskRaises(i)
    \/ AsCompletedStart
    \/ \E f \in Tasks : LoopBody(f)
    \/ LoopEnd
    \/ Shutdown
    \/ RejectPass

SpecRegister == InitRegister /\ [][NextRegister]_vars /\ WF_vars(NextRegister)

\* ------------------------------------------- ThreadSafeBioformatsReader.read
\* Thread t calls read on reader instance r and reaches `with self.lock`.
\* A run makes finitely many reads: one of those still to make is used up.
CallRead(t, r) ==
    /\ rpc[t] = "idle"
    /\ reads_todo > 0
    /\ reads_todo' = reads_todo - 1
    /\ rpc' = [rpc EXCEPT ![t] = "waiting"]
    /\ rreader' = [rreader EXCEPT ![t] = r]
    /\ rraised' = [rraised EXCEPT ![t] = FALSE]
    /\ UNCHANGED lock
    /\ UNCHANGED nonReaderVars

\* Mutant: a lock that lets every thread in.
LockIgnored == TRUE

\* The class attribute lock = Lock(), one for all instances, is free.
LockFree == lock = NoThread

\* with self.lock: the lock is acquired once it is free.
AcquireLock(t) ==
    /\ rpc[t] = "waiting"
    /\ LockFree
    /\ lock' = t
    /\ rpc' = [rpc EXCEPT ![t] = "locked"]
    /\ UNCHANGED <<rreader, rraised, reads_todo>>
    /\ UNCHANGED nonReaderVars

\* super().read(*args, **kwargs) is entered.
UnderlyingReadStart(t) ==
    /\ rpc[t] = "locked"
    /\ rpc' = [rpc EXCEPT ![t] = "inread"]
    /\ UNCHANGED <<lock, rreader, rraised, reads_todo>>
    /\ UNCHANGED nonReaderVars

\* The underlying read returns the image.
UnderlyingReadReturns(t) ==
    /\ rpc[t] = "inread"
    /\ rpc' = [rpc EXCEPT ![t] = "leaving"]
    /\ UNCHANGED <<lock, rreader, rraised, reads_todo>>
    /\ UNCHANGED nonReaderVars

\* The underlying read raises.
UnderlyingReadRaises(t) ==
    /\ rpc[t] = "inread"
    /\ rpc' = [rpc EXCEPT ![t] = "leaving"]
    /\ rraised' = [rraised EXCEPT ![t] = TRUE]
    /\ UNCHANGED <<lock, rreader, reads_todo>>
    /\ UNCHANGED nonReaderVars

\* Mutant: the lock released on return only, as acquire() and release()
\* around the read without try/finally would do.
ReleasedOnReturnOnly(raised) == ~raised

\* with self.lock: the lock is released on return and on exception.
ReleasedOnExit(raised) == TRUE

\* The with block is left, by return or by exception: the lock is released.
ReleaseLock(t) ==
    /\ rpc[t] = "leaving"
    /\ lock' = IF ReleasedOnExit(rraised[t]) THEN NoThread ELSE lock
    /\ rpc' = [rpc EXCEPT ![t] = "idle"]
    /\ UNCHANGED <<rreader, rraised, reads_todo>>
    /\ UNCHANGED nonReaderVars

\* The threads are idle, the lock is free and the run has MaxReads reads
\* to make.
InitReader ==
    /\ lock = NoThread
    /\ rpc = [t \in Threads |-> "idle"]
    /\ rreader = [t \in Threads |-> 1]
    /\ rraised = [t \in Threads |-> FALSE]
    /\ reads_todo = MaxReads
    /\ ExecIdle
    /\ n_workers = 1
    /\ SamplerUnused
    /\ RegIdle
    /\ TailIdle

NextReader ==
    \/ \E t \in Threads, r \in Readers : CallRead(t, r)
    \/ \E t \in Threads : AcquireLock(t)
    \/ \E t \in Threads : UnderlyingReadStart(t)
    \/ \E t \in Threads : UnderlyingReadReturns(t)
    \/ \E t \in Threads : UnderlyingReadRaises(t)
    \/ \E t \in Threads : ReleaseLock(t)

\* Every thread inside the with block keeps running and every underlying
\* read ends; a free lock with threads waiting is handed to one of them,
\* whichever it is. No thread has to call read.
SpecReader ==
    /\ InitReader
    /\ [][NextReader]_vars
    /\ WF_vars(\E t \in Threads : AcquireLock(t))
    /\ \A t \in Threads :
          /\ WF_vars(UnderlyingReadStart(t))
          /\ WF_vars(UnderlyingReadReturns(t) \/ UnderlyingReadRaises(t))
          /\ WF_vars(ReleaseLock(t))

\* ----------------------------------------- ParallelLayerAligner.register_all
\* What self.register(i) may return, as (shift, error): a measured shift with
\* its error, or the zero shift with infinite error.
LayerValues == { [shift |-> <<1, -1>>, error |-> Fin(0)],
                 [shift |-> <<0, 0>>, error |-> Inf] }

\* shift, error = list(zip(*results)); self.shifts = np.array(shift)
LayerShifts(res) == [i \in DOMAIN res |-> res[i].shift]

\* Mutant: the rejection sentinel written over every error at this stage.
LayerErrorsRejected(res) == [i \in DOMAIN res |-> Inf]

\* shift, error = list(zip(*results)); self.errors = np.array(error)
LayerErrors(res) == [i \in DOMAIN res |-> res[i].error]

\* self.shifts.shape == (n, 2)
ShiftsShapeOk(sh, k) ==
    /\ DOMAIN sh = 0 .. (k - 1)
    /\ \A i \in DOMAIN sh : Len(sh[i]) = 2

\* self.errors.shape == (n,)
ErrorsShapeOk(er, k) == DOMAIN er = 0 .. (k - 1)

\* register_all up to the executor call: args = [(i,) for i in range(n)],
\* then execute_parallel_with_ordered_results(self.register, args=args, ...).
LayerRegisterAllBegin ==
    /\ lay_pc = "start"
    /\ CallExecutor("ordered", num_images)
    /\ lay_pc' = "executing"
    /\ UNCHANGED <<num_images, shifts, errors>>
    /\ UNCHANGED <<readerVars, samplerVars, regVars, mosaicVars, writerVars,
                   pipeVars, sessionVars,
                   rngVars>>

\* The executor has returned the results list: it is unzipped into shifts and
\* errors (an empty list cannot be unpacked into two names: ValueError) and
\* the two shape assertions are made.
LayerCollect ==
    /\ lay_pc = "executing"
    /\ cpc = "returned"
    /\ IF nargs = 0
       THEN /\ lay_pc' = "raised"
            /\ UNCHANGED <<shifts, errors>>
       ELSE /\ shifts' = LayerShifts(retval.list)
            /\ errors' = LayerErrors(retval.list)
            /\ lay_pc' = IF /\ ShiftsShapeOk(LayerShifts(retval.list), num_images)
                            /\ ErrorsShapeOk(LayerErrors(retval.list), num_images)
                         THEN "done"
                         ELSE "assertion"
    /\ UNCHANGED num_images
    /\ UNCHANGED <<execVars, readerVars, samplerVars, regVars, mosaicVars,
                   writerVars, pipeVars, sessionVars,
                   rngVars>>

\* The executor has re-raised a task's exception: it leaves register_all.
LayerPropagate ==
    /\ lay_pc = "executing"
    /\ cpc = "raised"
    /\ lay_pc' = "raised"
    /\ UNCHANGED <<num_images, shifts, errors>>
    /\ UNCHANGED <<execVars, readerVars, samplerVars, regVars, mosaicVars,
                   writerVars, pipeVars, sessionVars,
                   rngVars>>

InitLayer ==
    /\ lay_pc = "start"
    /\ num_images \in 0 .. MaxTasks
    /\ shifts = <<>>
    /\ errors = <<>>
    /\ ExecIdle
    /\ n_workers \in 1 .. MaxWorkers
    /\ ReaderIdle
    /\ SamplerUnused
    /\ RegIdle
    /\ MosaicIdle
    /\ WriterIdle
    /\ PipeIdle
    /\ SessionIdle
    /\ RngIdle

NextLayer ==
    \/ LayerRegisterAllBegin
    \/ Submit
    \/ \E i \in Tasks : StartTask(i)
    \/ \E i \in Tasks, v \in LayerValues : TaskReturns(i, v)
    \/ \E i \in Tasks : TaskRaises(i)
    \/ AsCompletedStart
    \/ \E f \in Tasks : LoopBody(f)
    \/ LoopEnd
    \/ Shutdown
    \/ LayerCollect
    \/ LayerPropagate

SpecLayer == InitLayer /\ [][NextLayer]_vars /\ WF_vars(NextLayer)

\* ------------------------------- ParallelMosaic.assemble_channel_parallel
\* The shape of a tile image, <<rows, columns>>.
TileShape == <<1, 2>>

\* The tile positions explored, <<row, column>> of the tile's first pixel in
\* the mosaic: three near the origin and one beyond every canvas.
Positions == {<<0, 0>>, <<0, 1>>, <<1, 0>>, <<9, 9>>}

\* What a cell of an array that the caller has filled held before the call,
\* written as an image of no mosaic.
Prior == <<0, 0, 0>>

\* reader.read(c=channel, series=si) of the mosaic's reader: the image of
\* tile si in that channel of that cycle.
ReadImage(mosaic, channel, si) == <<mosaic, channel, si>>

\* np.zeros(shape, dtype): nothing blended into any cell.
Zeros(shape) ==
    [shape |-> shape,
     rows |-> [r \in 1 .. shape[1] |-> [c \in 1 .. shape[2] |-> <<>>]]]

\* An array of the given shape that the caller has filled.
Filled(shape) ==
    [shape |-> shape,
     rows |-> [r \in 1 .. shape[1] |-> [c \in 1 .. shape[2] |-> <<Prior>>]]]

\* utils.paste(out, img, position, func=utils.pastefunc_blend): the image of
\* a tile, clipped to the array, is blended into the cells it covers.
Paste(cv, img, pos) ==
    [cv EXCEPT !.rows =
        [r \in 1 .. cv.shape[1] |->
            [c \in 1 .. cv.shape[2] |->
                IF /\ r - 1 >= pos[1] /\ r - 1 < pos[1] + TileShape[1]
                   /\ c - 1 >= pos[2] /\ c - 1 < pos[2] + TileShape[2]
                THEN Append(cv.rows[r][c], img)
                ELSE cv.rows[r][c]]]]

\* out[i, ::-1]
Reverse(row) == [k \in 1 .. Len(row) |-> row[Len(row) + 1 - k]]

\* Mutant: the row copied onto itself back to front without a temporary, so
\* that its second half is read after the first was overwritten.
FlipXOverlapping(rows) ==
    [i \in 1 .. Len(rows) |->
        [k \in 1 .. Len(rows[i]) |->
            IF 2 * k <= Len(rows[i]) THEN rows[i][Len(rows[i]) + 1 - k]
            ELSE rows[i][k]]]

\* for i in range(len(out)): out[i] = out[i, ::-1]
FlipX(rows) == [i \in 1 .. Len(rows) |-> Reverse(rows[i])]

\* out[[i, -i - 1]] = out[[-i - 1, i]]: rows i and -i - 1 change places.
SwapRows(rows, i) ==
    [k \in 1 .. Len(rows) |->
        IF k = i + 1 THEN rows[Len(rows) - i]
        ELSE IF k = Len(rows) - i THEN rows[i + 1]
        ELSE rows[k]]

\* for i in range(len(out) // 2): out[[i, -i - 1]] = out[[-i - 1, i]],
\* from index i on.
RECURSIVE FlipYFrom(_, _)
FlipYFrom(rows, i) ==
    IF i >= Len(rows) \div 2 THEN rows
    ELSE FlipYFrom(SwapRows(rows, i), i + 1)

\* The two memory-conserving axis flips after the tile loop.
Flips(rows, fx, fy) ==
    LET afterx == IF fx THEN FlipX(rows) ELSE rows
    IN  IF fy THEN FlipYFrom(afterx, 0) ELSE afterx

\* The calls of assemble_channel_parallel.
Calls == DOMAIN as_pc

\* self of call i.
MosaicOf(i) == mosaics[acall[i].mosaic]

\* Mutant: a supplied array used whatever its shape.
ShapeUnchecked(cv, shape) == FALSE

\* out.shape != self.shape
ShapeMismatch(cv, shape) == cv.shape # shape

\* Mutant: every call given the first array instead of one of its own.
AllocShared(h) == 1

\* np.zeros returns a new array: its place among the arrays that exist.
AllocCanvas(h) == Len(h) + 1

\* The start of the call: out = np.zeros(self.shape, self.dtype) when no
\* array is supplied, else the shape check, which raises ValueError.
AssembleBegin(i) ==
    /\ as_pc[i] = "start"
    /\ IF acall[i].out = NoCanvas
       THEN /\ as_out' = [as_out EXCEPT ![i] = AllocCanvas(heap)]
            /\ writers' = [k \in 1 .. Max2(Len(heap), AllocCanvas(heap)) |->
                              IF k = AllocCanvas(heap)
                              THEN (IF k <= Len(heap) THEN writers[k] ELSE {})
                                   \cup {i}
                              ELSE writers[k]]
            /\ heap' = [k \in 1 .. Max2(Len(heap), AllocCanvas(heap)) |->
                           IF k = AllocCanvas(heap) THEN Zeros(MosaicOf(i).shape)
                           ELSE heap[k]]
            /\ as_pc' = [as_pc EXCEPT ![i] = "pasting"]
       ELSE IF ShapeMismatch(heap[acall[i].out], MosaicOf(i).shape)
       THEN /\ as_pc' = [as_pc EXCEPT ![i] = "shape_error"]
            /\ UNCHANGED <<as_out, heap, writers>>
       ELSE /\ as_out' = [as_out EXCEPT ![i] = acall[i].out]
            /\ as_pc' = [as_pc EXCEPT ![i] = "pasting"]
            /\ UNCHANGED <<heap, writers>>
    /\ UNCHANGED <<mosaics, acall, as_si, as_reads, unflipped>>
    /\ UNCHANGED <<execVars, readerVars, samplerVars, regVars, layerVars,
                   writerVars, pipeVars, sessionVars,
                   rngVars>>

\* Mutant: the tiles pasted from the last to the first.
PasteIndexReversed(i) == Len(MosaicOf(i).positions) - 1 - as_si[i]

\* enumerate(positions): the tile the loop handles next.
PasteIndex(i) == as_si[i]

\* One pass of the tile loop: img = reader.read(c=channel, series=si);
\* img = self.correct_illumination(img, channel); utils.paste(out, img, ...).
PasteTile(i) ==
    /\ as_pc[i] = "pasting"
    /\ as_si[i] < Len(MosaicOf(i).positions)
    /\ as_reads' = [as_reads EXCEPT ![i] = @ + 1]
    /\ heap' = [heap EXCEPT ![as_out[i]] =
                   Paste(@, ReadImage(acall[i].mosaic, acall[i].channel,
                                      PasteIndex(i)),
                         MosaicOf(i).positions[PasteIndex(i) + 1])]
    /\ writers' = [writers EXCEPT ![as_out[i]] = @ \cup {i}]
    /\ as_si' = [as_si EXCEPT ![i] = @ + 1]
    /\ UNCHANGED <<mosaics, acall, as_pc, as_out, unflipped>>
    /\ UNCHANGED <<execVars, readerVars, samplerVars, regVars, layerVars,
                   writerVars, pipeVars, sessionVars,
                   rngVars>>

\* One pass of the tile loop in which reader.read raises: the exception
\* leaves the call.
PasteTileRaises(i) ==
    /\ as_pc[i] = "pasting"
    /\ as_si[i] < Len(MosaicOf(i).positions)
    /\ as_reads' = [as_reads EXCEPT ![i] = @ + 1]
    /\ as_pc' = [as_pc EXCEPT ![i] = "read_error"]
    /\ UNCHANGED <<mosaics, heap, acall, as_out, as_si, unflipped, writers>>
    /\ UNCHANGED <<execVars, readerVars, samplerVars, regVars, layerVars,
                   writerVars, pipeVars, sessionVars,
                   rngVars>>

\* After the tile loop: the axis flips, then return out.
AssembleEnd(i) ==
    /\ as_pc[i] = "pasting"
    /\ as_si[i] = Len(MosaicOf(i).positions)
    /\ unflipped' = [unflipped EXCEPT ![i] = heap[as_out[i]].rows]
    /\ heap' = [heap EXCEPT ![as_out[i]].rows =
                   Flips(@, MosaicOf(i).flip_mosaic_x, MosaicOf(i).flip_mosaic_y)]
    /\ writers' = [writers EXCEPT ![as_out[i]] =
                      IF MosaicOf(i).flip_mosaic_x \/ MosaicOf(i).flip_mosaic_y
                      THEN @ \cup {i} ELSE @]
    /\ as_pc' = [as_pc EXCEPT ![i] = "returned"]
    /\ UNCHANGED <<mosaics, acall, as_out, as_si, as_reads>>
    /\ UNCHANGED <<execVars, readerVars, samplerVars, regVars, layerVars,
                   writerVars, pipeVars, sessionVars,
                   rngVars>>

\* The mosaic shapes explored: 0 to MaxRows rows, 1 to MaxCols columns.
Shapes == {<<h, x>> : h \in 0 .. MaxRows, x \in 1 .. MaxCols}

\* The position lists explored: up to MaxTiles tiles.
PositionLists == UNION {[1 .. k -> Positions] : k \in 0 .. MaxTiles}

\* One direct call on one mosaic: without an array, with one of the mosaic's
\* shape, or with one that has a row more.
InitMosaic ==
    /\ \E sh \in Shapes, ps \in PositionLists, fx \in BOOLEAN, fy \in BOOLEAN :
          mosaics = << [shape |-> sh, positions |-> ps, flip_mosaic_x |-> fx,
                        flip_mosaic_y |-> fy, channels |-> 1] >>
    /\ \/ heap = <<>> /\ acall = (0 :> [mosaic |-> 1, channel |-> 0, out |-> NoCanvas])
       \/ /\ heap \in { <<Filled(mosaics[1].shape)>>,
                         <<Filled(<<mosaics[1].shape[1] + 1, mosaics[1].shape[2]>>)>> }
          /\ acall = (0 :> [mosaic |-> 1, channel |-> 0, out |-> 1])
    /\ writers = [k \in DOMAIN heap |-> {}]
    /\ as_pc = (0 :> "start")
    /\ as_out = (0 :> NoCanvas)
    /\ as_si = (0 :> 0)
    /\ as_reads = (0 :> 0)
    /\ unflipped = (0 :> <<>>)
    /\ ExecIdle
    /\ n_workers = 1
    /\ ReaderIdle
    /\ SamplerUnused
    /\ RegIdle
    /\ LayerIdle
    /\ WriterIdle
    /\ PipeIdle
    /\ SessionIdle
    /\ RngIdle

NextMosaic ==
    \/ \E i \in Calls : AssembleBegin(i)
    \/ \E i \in Calls : PasteTile(i)
    \/ \E i \in Calls : PasteTileRaises(i)
    \/ \E i \in Calls : AssembleEnd(i)

\* The call is sequential code: it keeps running.
SpecMosaic == InitMosaic /\ [][NextMosaic]_vars /\ WF_vars(NextMosaic)

\* ------------------------------------------- ParallelTiffListWriter.run
\* self.path_format.format(cycle=cycle, channel=channel): the fields the
\* format names are filled in, a keyword it does not name is ignored.
Format(fmt, cycle, channel) ==
    IF fmt = "cycle_channel" THEN <<"cycle", cycle, "channel", channel>>
    ELSE <<"cycle", cycle>>

\* The two nested loops that fill args, from cycle cy (counted from 1) on,
\* tqdm_ind being ind: one argument per channel of every mosaic.
RECURSIVE ArgsFrom(_, _, _, _)
ArgsFrom(ms, fmt, cy, ind) ==
    IF cy > Len(ms) THEN <<>>
    ELSE [ch \in 1 .. ms[cy].channels |->
             [cycle |-> cy - 1, mosaic |-> cy, channel |-> ch - 1,
              path |-> Format(fmt, cy - 1, ch - 1), tqdm_ind |-> ind + ch - 1]]
         \o ArgsFrom(ms, fmt, cy + 1, ind + ms[cy].channels)

\* Mutant: the inner loop left after its first channel.
WriterArgsFirstChannel(ms, fmt) ==
    [cy \in 1 .. Len(ms) |->
        [cycle |-> cy - 1, mosaic |-> cy, channel |-> 0,
         path |-> Format(fmt, cy - 1, 0), tqdm_ind |-> cy - 1]]

\* args as run builds it, tqdm_ind starting at 0.
WriterArgs(ms, fmt) == ArgsFrom(ms, fmt, 1, 0)

\* args[i]: the argument of task i.
WArg(i) == wargs[i + 1]

\* run up to the executor call: args, then
\* execute_parallel(write, args=args, tqdm_args=dict(disable=True)).
WriterBegin ==
    /\ wr_pc = "start"
    /\ wargs' = WriterArgs(mosaics, path_format)
    /\ CallExecutor("unordered", Len(WriterArgs(mosaics, path_format)))
    /\ wr_pc' = "executing"
    /\ UNCHANGED <<path_format, tiff_writes>>
    /\ UNCHANGED <<readerVars, samplerVars, regVars, layerVars, mosaicVars,
                   pipeVars, sessionVars,
                   rngVars>>

\* Task i starts write(cycle, mosaic, channel, path, tqdm_ind): positions,
\* reader and tqdm_args are looked up, the TiffWriter is opened and
\* mosaic.assemble_channel_parallel(channel, positions, reader, ...) is
\* called without an output array.
WriteOpen(i) ==
    /\ wr_pc = "executing"
    /\ tstate[i] = "running"
    /\ i \notin Calls
    /\ acall' = (i :> [mosaic |-> WArg(i).mosaic, channel |-> WArg(i).channel,
                       out |-> NoCanvas]) @@ acall
    /\ as_pc' = (i :> "start") @@ as_pc
    /\ as_out' = (i :> NoCanvas) @@ as_out
    /\ as_si' = (i :> 0) @@ as_si
    /\ as_reads' = (i :> 0) @@ as_reads
    /\ unflipped' = (i :> <<>>) @@ unflipped
    /\ UNCHANGED <<mosaics, heap, writers>>
    /\ UNCHANGED <<execVars, readerVars, samplerVars, regVars, layerVars,
                   writerVars, pipeVars, sessionVars,
                   rngVars>>

\* tiff.write(data=<the assembled canvas>, ...): one plane, then the
\* TiffWriter is closed.
WriteTiff(i) ==
    /\ wr_pc = "executing"
    /\ i \in Calls
    /\ as_pc[i] = "returned"
    /\ tiff_writes' = tiff_writes \cup
          {[task |-> i, path |-> WArg(i).path, data |-> heap[as_out[i]].rows]}
    /\ as_pc' = [as_pc EXCEPT ![i] = "written"]
    /\ UNCHANGED <<mosaics, heap, acall, as_out, as_si, as_reads, unflipped,
                   writers>>
    /\ UNCHANGED <<wr_pc, path_format, wargs>>
    /\ UNCHANGED <<execVars, readerVars, samplerVars, regVars, layerVars,
                   pipeVars, sessionVars,
                   rngVars>>

\* write has run to its end: the task returns None.
WriteReturns(i) ==
    /\ i \in Calls
    /\ as_pc[i] = "written"
    /\ TaskReturns(i, None)

\* The exception of a failed read leaves write: the task raises.
WriteRaises(i) ==
    /\ i \in Calls
    /\ as_pc[i] = "read_error"
    /\ TaskRaises(i)

\* execute_parallel has returned: run returns.
WriterEnd ==
    /\ wr_pc = "executing"
    /\ cpc = "returned"
    /\ wr_pc' = "done"
    /\ UNCHANGED <<path_format, wargs, tiff_writes>>
    /\ UNCHANGED <<execVars, readerVars, samplerVars, regVars, layerVars,
                   mosaicVars, pipeVars, sessionVars,
                   rngVars>>

\* A mosaic of the writer: all mosaics have the shape of the first cycle
\* and the same flips (process_single gives each a copy of mosaic_args);
\* the positions are those of the cycle's aligner.
WriterMosaic(ps, fx, k) ==
    [shape |-> <<1, 2>>, positions |-> ps, flip_mosaic_x |-> fx,
     flip_mosaic_y |-> FALSE, channels |-> k]

\* The mosaic lists explored: one cycle with one channel, one cycle with
\* two, and two cycles with two channels and one; the tiles of the first
\* cycle overlap.
WriterMosaicLists(fx) ==
    { << WriterMosaic(<<(<<0, 0>>), (<<0, 1>>)>>, fx, 1) >>,
      << WriterMosaic(<<(<<0, 0>>), (<<0, 1>>)>>, fx, 2) >>,
      << WriterMosaic(<<(<<0, 0>>), (<<0, 1>>)>>, fx, 2),
         WriterMosaic(<<(<<0, 1>>)>>, fx, 1) >> }

InitWriter ==
    /\ wr_pc = "start"
    /\ path_format \in {"cycle_channel", "cycle"}
    /\ wargs = <<>>
    /\ tiff_writes = {}
    /\ \E fx \in BOOLEAN : mosaics \in WriterMosaicLists(fx)
    /\ heap = <<>>
    /\ acall = <<>>
    /\ as_pc = <<>>
    /\ as_out = <<>>
    /\ as_si = <<>>
    /\ as_reads = <<>>
    /\ unflipped = <<>>
    /\ writers = <<>>
    /\ ExecIdle
    /\ n_workers \in 1 .. MaxWorkers
    /\ ReaderIdle
    /\ SamplerUnused
    /\ RegIdle
    /\ LayerIdle
    /\ PipeIdle
    /\ SessionIdle
    /\ RngIdle

NextWriter ==
    \/ WriterBegin
    \/ Submit
    \/ \E i \in Tasks : StartTask(i)
    \/ \E i \in Tasks : WriteOpen(i)
    \/ \E i \in Calls : AssembleBegin(i)
    \/ \E i \in Calls : PasteTile(i)
    \/ \E i \in Calls : PasteTileRaises(i)
    \/ \E i \in Calls : AssembleEnd(i)
    \/ \E i \in Tasks : WriteTiff(i)
    \/ \E i \in Tasks : WriteReturns(i)
    \/ \E i \in Tasks : WriteRaises(i)
    \/ AsCompletedStart
    \/ \E f \in Tasks : LoopBody(f)
    \/ LoopEnd
    \/ Shutdown
    \/ WriterEnd

SpecWriter == InitWriter /\ [][NextWriter]_vars /\ WF_vars(NextWriter)

\* ---------------------------------------------------------- process_single
\* Mutant: the thumbnail never turned off.
SkipThumbnailNever(nfiles) == FALSE

\* if len(filepaths) == 1: ea_args["do_make_thumbnail"] = False
SkipThumbnail(nfiles) == nfiles = 1

\* ea_args = aligner_args.copy(), the test on len(filepaths), and
\* edge_aligner = ParallelEdgeAligner(reader, **ea_args), whose
\* do_make_thumbnail is True unless an argument says otherwise.
ConstructEdgeAligner ==
    /\ ps_pc = "start"
    /\ do_make_thumbnail' = IF SkipThumbnail(num_files) THEN FALSE
                            ELSE args_thumbnail # "false"
    /\ ps_pc' = "constructed"
    /\ UNCHANGED <<num_files, args_thumbnail, thumbnail_built, thumbnail_reads,
                   ps_cycle, ps_mosaics>>
    /\ UNCHANGED <<execVars, readerVars, samplerVars, regVars, layerVars,
                   mosaicVars, writerVars, sessionVars, rngVars>>

\* edge_aligner.run(), first step, ParallelEdgeAligner.make_thumbnail: it
\* returns at once if not self.do_make_thumbnail, else make_thumbnail reads
\* every tile of the layer and the result is stored in reader.thumbnail.
EdgeMakeThumbnail ==
    /\ ps_pc = "constructed"
    /\ IF do_make_thumbnail
       THEN /\ thumbnail_built' = TRUE
            /\ thumbnail_reads' = layout.num_tiles
       ELSE UNCHANGED <<thumbnail_built, thumbnail_reads>>
    /\ ps_pc' = "thumbnail"
    /\ UNCHANGED <<num_files, args_thumbnail, do_make_thumbnail, ps_cycle,
                   ps_mosaics>>
    /\ UNCHANGED <<execVars, readerVars, samplerVars, regVars, layerVars,
                   mosaicVars, writerVars, sessionVars, rngVars>>

\* edge_aligner.run(), the steps that follow: compute_threshold, then
\* register_all, then the positions; the mosaic of cycle 0 is appended.
EdgeStep ==
    /\ ps_pc \in {"thumbnail", "threshold", "registered"}
    /\ ps_pc' = IF ps_pc = "thumbnail" THEN "threshold"
                ELSE IF ps_pc = "threshold" THEN "registered"
                ELSE "aligned"
    /\ ps_mosaics' = IF ps_pc = "registered" THEN 1 ELSE ps_mosaics
    /\ ps_cycle' = IF ps_pc = "registered" THEN 1 ELSE ps_cycle
    /\ UNCHANGED <<num_files, args_thumbnail, do_make_thumbnail,
                   thumbnail_built, thumbnail_reads>>
    /\ UNCHANGED <<execVars, readerVars, samplerVars, regVars, layerVars,
                   mosaicVars, writerVars, sessionVars, rngVars>>

\* One pass of the loop over filepaths[1:]: a reader, a ParallelLayerAligner
\* that is run, and the cycle's mosaic appended.
LayerCycle ==
    /\ ps_pc = "aligned"
    /\ ps_cycle < num_files
    /\ ps_cycle' = ps_cycle + 1
    /\ ps_mosaics' = ps_mosaics + 1
    /\ UNCHANGED <<ps_pc, num_files, args_thumbnail, do_make_thumbnail,
                   thumbnail_built, thumbnail_reads>>
    /\ UNCHANGED <<execVars, readerVars, samplerVars, regVars, layerVars,
                   mosaicVars, writerVars, sessionVars, rngVars>>

\* After the loop: the edge aligner's caching reader is replaced by the
\* reader it wraps, and the writer is run.
WriteAll ==
    /\ ps_pc = "aligned"
    /\ ps_cycle = num_files
    /\ ps_pc' = "done"
    /\ UNCHANGED <<num_files, args_thumbnail, do_make_thumbnail,
                   thumbnail_built, thumbnail_reads, ps_cycle, ps_mosaics>>
    /\ UNCHANGED <<execVars, readerVars, samplerVars, regVars, layerVars,
                   mosaicVars, writerVars, sessionVars, rngVars>>

\* process_single is called with 1 to MaxFiles files of a layer of one to
\* three tiles; aligner_args may or may not name do_make_thumbnail.
InitPipeline ==
    /\ ps_pc = "start"
    /\ num_files \in 1 .. MaxFiles
    /\ args_thumbnail \in {"absent", "true", "false"}
    /\ do_make_thumbnail = TRUE
    /\ thumbnail_built = FALSE
    /\ thumbnail_reads = 0
    /\ ps_cycle = 0
    /\ ps_mosaics = 0
    /\ layout \in Layouts
    /\ size0 = MaxTileSize
    /\ SamplerIdle
    /\ ExecIdle
    /\ n_workers = 1
    /\ ReaderIdle
    /\ RegIdle
    /\ LayerIdle
    /\ MosaicIdle
    /\ WriterIdle
    /\ SessionIdle
    /\ RngIdle

NextPipeline ==
    \/ ConstructEdgeAligner
    \/ EdgeMakeThumbnail
    \/ EdgeStep
    \/ LayerCycle
    \/ WriteAll

SpecPipeline == InitPipeline /\ [][NextPipeline]_vars /\ WF_vars(NextPipeline)

\* ------------------------- compute_threshold: random state, executor, threshold
\* n, held to MaxSamples so that the executor's interleavings can be explored.
SampleCount == Min2(NumPairs, MaxSamples)

\* compute_threshold up to the sampling loop, for at most MaxSamples pairs.
ThresholdBegin == ComputeThresholdBeginOf(SampleCount)

\* Mutant: the random state never seeded, RandomState() in both branches.
SeedNever(rz) == FALSE

\* if self.randomize is False: np.random.RandomState(0)
SeedFixed(rz) == rz = FALSE

\* The seeds RandomState() may take from the system's entropy.
Seeds == 0 .. MaxSeed

\* random_state = np.random.RandomState(0), or RandomState() seeded by the
\* system.
MakeRandomState ==
    /\ ct_pc = "sampling"
    /\ seed = Unset
    /\ IF SeedFixed(randomize) THEN seed' = 0 ELSE seed' \in Seeds
    /\ UNCHANGED <<randomize, rng_pos, pairs, errors_negative_sampled>>
    /\ UNCHANGED <<execVars, readerVars, samplerVars, regVars, layerVars,
                   mosaicVars, writerVars, pipeVars, sessionVars>>

\* The k-th number of a randint(high) stream seeded sd: the generator is a
\* fixed function of its seed and of how many numbers it has produced.
Randint(sd, k, high) ==
    (((sd + 3) * (k + 2) * (k + 5) + (k \div 4) * (sd + 2) + k) % 17) % high

\* t1, t2 = randint(num_images, size=2); o1, o2 = randint(max_offset, size=2),
\* drawn by a random state seeded sd that has produced k numbers.
StreamRow(sd, k) ==
    <<Randint(sd, k, layout.num_tiles), Randint(sd, k + 1, layout.num_tiles),
      Randint(sd, k + 2, max_offset), Randint(sd, k + 3, max_offset)>>

\* One pass of the retry loop with the numbers random_state produces; a row
\* that ends the retry loop is written to pairs and offsets.
StreamDraw ==
    /\ seed # Unset
    /\ LET row == StreamRow(seed, rng_pos)
       IN  /\ DrawStep(row[1], row[2], row[3], row[4])
           /\ pairs' = IF written' = NoRow THEN pairs ELSE Append(pairs, row)
    /\ rng_pos' = rng_pos + 4
    /\ UNCHANGED <<randomize, seed, errors_negative_sampled>>
    /\ UNCHANGED <<execVars, readerVars, regVars, layerVars, mosaicVars,
                   writerVars, pipeVars, sessionVars>>

\* utils.register on the two strips of a row: the error score, a fixed
\* function of the tiles and offsets read (the images do not change).
StripError(row) == (row[1] + 2 * row[2] + row[3] + row[4]) % (MaxError + 1)

\* After the loop: args holds one (t1, t2, offset1, offset2) per row and
\* execute_parallel_with_ordered_results(register, args=args, ...) is called.
ThresholdExecute ==
    /\ ct_pc = "sampling"
    /\ pair_i = n
    /\ CallExecutor("ordered", n)
    /\ ct_pc' = "executing"
    /\ ct_tasks' = n
    /\ written' = NoRow
    /\ warned' = FALSE
    /\ UNCHANGED <<layout, size0, w, max_offset, n, pair_i, current_try,
                   ct_reads, errors_len, max_error>>
    /\ UNCHANGED <<readerVars, regVars, tailVars>>

\* The k-th smallest of the values of a non-empty sequence, k from 1.
KthSmallest(es, k) ==
    CHOOSE v \in {es[i] : i \in DOMAIN es} :
       /\ Cardinality({i \in DOMAIN es : es[i] < v}) < k
       /\ Cardinality({i \in DOMAIN es : es[i] <= v}) >= k

\* self.false_positive_ratio * 100, with the aligner's default ratio 0.01.
FalsePositivePercent == 1

\* np.percentile(es, q), in hundredths: the value at position (len - 1) * q /
\* 100 of the sorted values, interpolated linearly between its neighbours.
Percentile(es, q) ==
    LET pos == (Len(es) - 1) * q
        lo == pos \div 100 + 1
        lower == KthSmallest(es, lo)
        upper == IF lo < Len(es) THEN KthSmallest(es, lo + 1) ELSE lower
    IN  100 * lower + (pos % 100) * (upper - lower)

\* A finite threshold, held in hundredths.
FinHundredths(h) == [kind |-> "fin", v |-> h]

\* The executor has returned the results list: errors = np.array(errors),
\* self.errors_negative_sampled = errors, self.max_error = np.percentile(...).
ThresholdFinish ==
    /\ ct_pc = "executing"
    /\ cpc = "returned"
    /\ errors_negative_sampled' = [i \in 1 .. n |-> retval.list[i - 1]]
    /\ errors_len' = n
    /\ max_error' = FinHundredths(Percentile(errors_negative_sampled',
                                             FalsePositivePercent))
    /\ ct_reads' = 2 * n
    /\ ct_pc' = "done"
    /\ UNCHANGED <<layout, size0, w, max_offset, n, pair_i, current_try, written,
                   warned, ct_tasks>>
    /\ UNCHANGED <<randomize, seed, rng_pos, pairs>>
    /\ UNCHANGED <<execVars, readerVars, regVars, layerVars, mosaicVars,
                   writerVars, pipeVars, sessionVars>>

\* compute_threshold is called on a layer, with randomize False or True.
\* The images can be read and registered: no register task raises.
InitThreshold ==
    /\ layout \in Layouts
    /\ size0 \in {MaxTileSize - 1, MaxTileSize}
    /\ SamplerIdle
    /\ ExecIdle
    /\ n_workers = MaxWorkers
    /\ ReaderIdle
    /\ RegIdle
    /\ LayerIdle
    /\ MosaicIdle
    /\ WriterIdle
    /\ PipeIdle
    /\ SessionIdle
    /\ randomize \in BOOLEAN
    /\ seed = Unset
    /\ rng_pos = 0
    /\ pairs = <<>>
    /\ errors_negative_sampled = <<>>

NextThreshold ==
    \/ ThresholdBegin
    \/ MakeRandomState
    \/ StreamDraw
    \/ ThresholdExecute
    \/ Submit
    \/ \E i \in Tasks : StartTask(i)
    \/ \E i \in Tasks : TaskReturns(i, StripError(pairs[i + 1]))
    \/ AsCompletedStart
    \/ \E f \in Tasks : LoopBody(f)
    \/ LoopEnd
    \/ Shutdown
    \/ ThresholdFinish

\* The loop is sequential code and every task terminates.
SpecThreshold == InitThreshold /\ [][NextThreshold]_vars /\ WF_vars(NextThreshold)

\* --------------------------------------------------------------- dask_session
\* The calls made on self.client and self.report.
ClientEnter == "client.__enter__"
ReportEnter == "report.__enter__"
ReportExit == "report.__exit__"
ClientExit == "client.__exit__"

\* __init__: memory_limit None becomes "auto".
MemoryLimitOf(ml) == IF ml = "None" THEN "auto" ELSE ml

\* Client(LocalCluster(...)): the arguments the cluster is built with;
\* n_workers and threads_per_worker are passed only when n_cpus is given.
ClusterArgs ==
    IF n_cpus = NoCpus
    THEN [memory_limit |-> memory_limit, n_workers |-> 0, threads_per_worker |-> 0]
    ELSE [memory_limit |-> memory_limit, n_workers |-> 1,
          threads_per_worker |-> n_cpus]

\* contextlib.nullcontext() if self.filename is None, else performance_report.
ReportOf(fn) == IF fn = NoFile THEN "nullcontext" ELSE "performance_report"

\* __enter__, first statement: self.client = Client(LocalCluster(...)).
EnterMakeClient ==
    /\ ds_pc = "new"
    /\ client' = ClusterArgs
    /\ ds_pc' = "client_made"
    /\ UNCHANGED <<memory_limit, n_cpus, filename, report, ds_args,
                   report_raised, ds_raised, ds_events>>
    /\ UNCHANGED <<execVars, readerVars, samplerVars, regVars, layerVars,
                   mosaicVars, writerVars, pipeVars, rngVars>>

\* __enter__, second statement: self.report.
EnterMakeReport ==
    /\ ds_pc = "client_made"
    /\ report' = ReportOf(filename)
    /\ ds_pc' = "report_made"
    /\ UNCHANGED <<memory_limit, n_cpus, filename, client, ds_args,
                   report_raised, ds_raised, ds_events>>
    /\ UNCHANGED <<execVars, readerVars, samplerVars, regVars, layerVars,
                   mosaicVars, writerVars, pipeVars, rngVars>>

\* self.client.__enter__()
EnterClient ==
    /\ ds_pc = "report_made"
    /\ ds_events' = Append(ds_events, ClientEnter)
    /\ ds_pc' = "client_entered"
    /\ UNCHANGED <<memory_limit, n_cpus, filename, client, report, ds_args,
                   report_raised, ds_raised>>
    /\ UNCHANGED <<execVars, readerVars, samplerVars, regVars, layerVars,
                   mosaicVars, writerVars, pipeVars, rngVars>>

\* self.report.__enter__() and return self: the body of the with statement
\* starts.
EnterReport ==
    /\ ds_pc = "client_entered"
    /\ ds_events' = Append(ds_events, ReportEnter)
    /\ ds_pc' = "body"
    /\ UNCHANGED <<memory_limit, n_cpus, filename, client, report, ds_args,
                   report_raised, ds_raised>>
    /\ UNCHANGED <<execVars, readerVars, samplerVars, regVars, layerVars,
                   mosaicVars, writerVars, pipeVars, rngVars>>

\* __enter__ raises: the cluster cannot be built, or the performance report
\* cannot be entered. __exit__ is then never called.
EnterRaises ==
    /\ \/ ds_pc = "new"
       \/ ds_pc = "client_entered" /\ report = "performance_report"
    /\ ds_pc' = "enter_raised"
    /\ UNCHANGED <<memory_limit, n_cpus, filename, client, report, ds_args,
                   report_raised, ds_raised, ds_events>>
    /\ UNCHANGED <<execVars, readerVars, samplerVars, regVars, layerVars,
                   mosaicVars, writerVars, pipeVars, rngVars>>

\* The body of the with statement ends, normally ("none") or by an exception
\* ("error"), and __exit__(*args) is called.
BodyEnds(e) ==
    /\ ds_pc = "body"
    /\ ds_args' = e
    /\ ds_pc' = "exit_report"
    /\ UNCHANGED <<memory_limit, n_cpus, filename, client, report,
                   report_raised, ds_raised, ds_events>>
    /\ UNCHANGED <<execVars, readerVars, samplerVars, regVars, layerVars,
                   mosaicVars, writerVars, pipeVars, rngVars>>

\* Mutant: no try/finally, the client's exit skipped when the report's exit
\* raises.
FinallySkippedOnRaise(raised) == ~raised

\* try: ... finally: the finally clause runs whether the try block raised
\* or not.
FinallyRuns(raised) == TRUE

\* try: self.report.__exit__(*args). Writing the performance report may
\* raise; nullcontext.__exit__ does nothing.
ExitReport(raised) ==
    /\ ds_pc = "exit_report"
    /\ raised => report = "performance_report"
    /\ ds_events' = Append(ds_events, ReportExit)
    /\ report_raised' = raised
    /\ IF FinallyRuns(raised)
       THEN /\ ds_pc' = "exit_client"
            /\ UNCHANGED ds_raised
       ELSE /\ ds_pc' = "exit_raised"
            /\ ds_raised' = "report"
    /\ UNCHANGED <<memory_limit, n_cpus, filename, client, report, ds_args>>
    /\ UNCHANGED <<execVars, readerVars, samplerVars, regVars, layerVars,
                   mosaicVars, writerVars, pipeVars, rngVars>>

\* finally: self.client.__exit__(*args). If it raises, its exception leaves
\* __exit__; otherwise the exception of the try block, if any, does.
ExitClient(raised) ==
    /\ ds_pc = "exit_client"
    /\ ds_events' = Append(ds_events, ClientExit)
    /\ ds_raised' = IF raised THEN "client"
                    ELSE IF report_raised THEN "report"
                    ELSE "none"
    /\ ds_pc' = IF raised \/ report_raised THEN "exit_raised" ELSE "exited"
    /\ UNCHANGED <<memory_limit, n_cpus, filename, client, report, ds_args,
                   report_raised>>
    /\ UNCHANGED <<execVars, readerVars, samplerVars, regVars, layerVars,
                   mosaicVars, writerVars, pipeVars, rngVars>>

\* The thread counts and memory limits a session is constructed with.
CpuCounts == {NoCpus, 2}
MemoryLimits == {"None", "4GB"}
Filenames == {NoFile, "report.html"}

\* dask_session(memory_limit=..., n_cpus=..., dask_report_filename=...)
InitSession ==
    /\ ds_pc = "new"
    /\ \E ml \in MemoryLimits : memory_limit = MemoryLimitOf(ml)
    /\ n_cpus \in CpuCounts
    /\ filename \in Filenames
    /\ client = NoClient
    /\ report = "unset"
    /\ ds_args = "none"
    /\ report_raised = FALSE
    /\ ds_raised = "none"
    /\ ds_events = <<>>
    /\ ExecIdle
    /\ n_workers = 1
    /\ ReaderIdle
    /\ SamplerUnused
    /\ RegIdle
    /\ LayerIdle
    /\ MosaicIdle
    /\ WriterIdle
    /\ PipeIdle
    /\ RngIdle

NextSession ==
    \/ EnterMakeClient
    \/ EnterMakeReport
    \/ EnterClient
    \/ EnterReport
    \/ EnterRaises
    \/ \E e \in {"none", "error"} : BodyEnds(e)
    \/ \E raised \in BOOLEAN : ExitReport(raised)
    \/ \E raised \in BOOLEAN : ExitClient(raised)

\* The with statement is sequential code: it keeps running.
SpecSession == InitSession /\ [][NextSession]_vars /\ WF_vars(NextSession)

\* ------------------------------------------------------------------ claims
Terminal == cpc \in {"returned", "raised"}

Failed == {i \in Tasks : tstate[i] = "failed"}

\* The place of task x in sequence s (0 when absent).
Pos(s, x) == IF \E k \in 1 .. Len(s) : s[k] = x
             THEN CHOOSE k \in 1 .. Len(s) : s[k] = x
             ELSE 0

\* Whether x is the failed task that comes first in sequence s.
FirstFailedIn(s, x) ==
    /\ x \in Failed
    /\ Pos(s, x) > 0
    /\ \A j \in Failed : Pos(s, j) > 0 => Pos(s, x) <= Pos(s, j)

\* C1: when no task raises, the ordered executor returns a list of exactly N
\* results, result[i] being the value task i returned, whatever the order in
\* which the workers finished: no slot is left at its None placeholder and
\* none holds another task's value.
C1_OrderedResults ==
    (variant = "ordered" /\ Terminal /\ Failed = {}) =>
        /\ cpc = "returned"
        /\ retval.kind = "list"
        /\ DOMAIN retval.list = Tasks
        /\ \A i \in Tasks : retval.list[i] = tval[i] /\ retval.list[i] # None

\* C1 witness: three tasks returned out of submission order with different
\* values, and the call has returned.
C1_Witness ==
    /\ variant = "ordered" /\ cpc = "returned" /\ nargs = 3
    /\ corder = <<1, 0, 2>>
    /\ tval[0] # tval[1]

\* C2 as stated: a failing task makes the ordered call raise without a result
\* list, after every task has finished, and what propagates is the failure
\* that comes first in completion order.
C2_FirstFailureInCompletionOrder ==
    (variant = "ordered" /\ Terminal /\ Failed # {}) =>
        /\ cpc = "raised"
        /\ retval = NoReturn
        /\ AllFinished
        /\ FirstFailedIn(corder, exc)

\* C2 amended: a failing task makes the ordered call raise without a result
\* list, after every task has finished; what propagates is the first failure
\* as_completed yields, and a failure that finished earlier can be passed over
\* only when both had already finished before as_completed started.
C2_FirstFailureYielded ==
    /\ (variant = "ordered" /\ Terminal /\ Failed # {}) =>
            (cpc = "raised" /\ retval = NoReturn)
    /\ cpc = "raised" =>
            /\ variant = "ordered"
            /\ AllFinished
            /\ FirstFailedIn(yorder, exc)
            /\ \A j \in Failed :
                   Pos(corder, j) < Pos(corder, exc) => {j, exc} \subseteq initial

\* C2 witness: the call has raised the failure of a task that finished after
\* as_completed started, while another task was still running at that moment.
C2_Witness ==
    /\ cpc = "raised" /\ nargs = 3
    /\ exc \notin initial
    /\ Len(yorder) < Len(corder)

\* C3: in the unordered executor a task that raises makes the call fail
\* instead of returning normally.
C3_FailureSurfaced ==
    (variant = "unordered" /\ Terminal /\ Failed # {}) => cpc = "raised"

\* C4: execute_parallel returns only once every submitted task has completed
\* or raised (none pending, none running), for every N including 0 and every
\* W >= 1, and, every task terminating, it does return.
C4_ReturnsAfterAllTasks ==
    /\ [](variant = "unordered" /\ cpc = "returned" =>
             AllFinished /\ Running = {} /\ submitted = nargs)
    /\ (variant = "unordered" => <>(cpc = "returned"))

\* C4 witness: an unordered call of three tasks on one worker has returned,
\* one of the tasks having raised.
C4_Witness ==
    /\ variant = "unordered" /\ cpc = "returned"
    /\ nargs = 3 /\ n_workers = 1 /\ Failed # {}

\* C5: during a call of either variant at most n_workers tasks run at the
\* same instant, and all N tasks have been executed when the call ends.
C5_WorkerBound ==
    /\ Cardinality(Running) <= n_workers
    /\ Terminal => (submitted = nargs /\ AllFinished)

\* C5 witness: the pool is full (two tasks running on two workers) while a
\* third submitted task waits in the queue.
C5_Witness ==
    /\ n_workers = 2 /\ Cardinality(Running) = 2
    /\ \E i \in Tasks : tstate[i] = "pending"

\* The threads inside the underlying, non-thread-safe read.
InRead == {t \in Threads : rpc[t] = "inread"}

\* C6: no two threads are inside the underlying read at once, and a thread
\* inside it holds the reader lock, from before the read starts until after
\* it has ended, whichever reader instance it reads.
C6_ReadsSerialized ==
    /\ Cardinality(InRead) <= 1
    /\ \A t \in Threads : rpc[t] \in {"locked", "inread", "leaving"} => lock = t

\* C6 witness: one thread is inside the underlying read of one reader while
\* two other threads wait for the lock, one of them on another reader.
C6_Witness ==
    \E t \in Threads, u \in Threads, v \in Threads :
        /\ t # u /\ u # v /\ t # v
        /\ rpc[t] = "inread" /\ rpc[u] = "waiting" /\ rpc[v] = "waiting"
        /\ rreader[t] # rreader[u]

\* The tiles are neighbours in the graph.
Adjacent(t1, t2) == <<t1, t2>> \in layout.edges \/ <<t2, t1>> \in layout.edges

\* The offsets of two neighbouring tiles lie outside the overlap band: the
\* grown intersection is taller than wide (the tiles lie side by side), or one
\* of the offsets is more than w away from the first row of the intersection.
OutsideBand(t1, t2, o1, o2) ==
    LET its == ItsShape(t1, t2)
        ioff == ItsOffsets(t1, t2)
    IN  \/ its[1] > its[2]
        \/ Abs(o1 - ioff[1]) > w
        \/ Abs(o2 - ioff[2]) > w

\* The non-overlap predicate on a row <<t1, t2, o1, o2>>.
NonOverlap(r) ==
    \/ r[1] # r[2] /\ ~Adjacent(r[1], r[2])
    \/ r[1] = r[2] /\ Abs(r[3] - r[4]) > w
    \/ Adjacent(r[1], r[2]) /\ OutsideBand(r[1], r[2], r[3], r[4])

C8_SamplingTerminates ==
    /\ [](/\ current_try < max_tries
          /\ ct_pc = "sampling" => pair_i <= n
          /\ (ct_pc = "done" /\ n # Unset) => pair_i = n)
    /\ [][(ct_pc = "sampling" /\ ct_pc' = "sampling") =>
             \/ /\ pair_i' = pair_i
                /\ current_try' = current_try + 1
                /\ written' = NoRow /\ ~warned'
             \/ /\ pair_i' = pair_i + 1
                /\ current_try' = 0
                /\ written' # NoRow
                /\ warned' <=> (current_try = max_tries - 1 /\ ~NonOverlap(written'))]_vars
    /\ <>(ct_pc \in {"done", "raised"})

\* C8 witness: the last pair of the loop was recorded with a warning after
\* its draws were exhausted.
C8_Witness ==
    /\ ct_pc = "sampling" /\ pair_i = n
    /\ warned /\ written # NoRow

\* C9: with at most one edge compute_threshold returns at once: the threshold
\* is infinite, the negative samples are empty, no pair is drawn, no
\* registration task is submitted, no tile is read and nothing is raised.
C9_FewEdgesAcceptAll ==
    Cardinality(layout.edges) <= 1 =>
        /\ ct_pc \in {"start", "done"}
        /\ ct_pc = "done" =>
              /\ max_error = Inf
              /\ errors_len = 0
              /\ pair_i = 0 /\ current_try = 0 /\ written = NoRow /\ ~warned
              /\ ct_tasks = 0
              /\ ct_reads = 0

\* C9 witness: compute_threshold has returned for a layer of two tiles joined
\* by one edge.
C9_Witness ==
    /\ ct_pc = "done"
    /\ Cardinality(layout.edges) = 1

\* The squared length of a shift <<dy, dx>>.
NormSquared(sh) == sh[1] * sh[1] + sh[2] * sh[2]

\* The record task k computed, as its future holds it.
Computed(k) == tval[k]

\* C10 as stated: the rejection pass starts only after every registration
\* task has completed, and afterwards a record has infinite error exactly when
\* its computed error exceeded max_error or the magnitude of its shift
\* exceeded the maximum shift; every other record keeps its computed error.
C10_RejectedByErrorOrShiftMagnitude ==
    reg_pc = "done" =>
        /\ AllFinished
        /\ \A k \in Tasks : tstate[k] = "done" =>
              cache[ArgEdge(k)].error =
                  IF \/ Greater(Computed(k).error, max_error)
                     \/ NormSquared(Computed(k).shift) >
                            max_shift_pixels * max_shift_pixels
                  THEN Inf
                  ELSE Computed(k).error

\* C10 amended: the rejection pass starts only after every registration task
\* has completed or raised, and afterwards a record has infinite error exactly
\* when its computed error exceeded max_error or the absolute value of one of
\* the two components of its shift exceeded the maximum shift; every other
\* record keeps its computed error.
C10_RejectedByErrorOrShiftComponent ==
    /\ reg_pc = "executing" => \A e \in DOMAIN cache : cache[e].error # Inf
    /\ reg_pc = "done" =>
        /\ AllFinished
        /\ \A k \in Tasks : tstate[k] = "done" =>
              cache[ArgEdge(k)].error =
                  IF \/ Greater(Computed(k).error, max_error)
                     \/ Abs(Computed(k).shift[1]) > max_shift_pixels
                     \/ Abs(Computed(k).shift[2]) > max_shift_pixels
                  THEN Inf
                  ELSE Computed(k).error

\* C10 witness: after the rejection pass over three edges registered out of
\* order, one record is rejected for its error, one for its shift and one is
\* kept.
C10_Witness ==
    /\ reg_pc = "done" /\ nargs = 3 /\ corder = <<1, 0, 2>>
    /\ \E a \in Tasks, b \in Tasks, c \in Tasks :
          /\ tstate[a] = "done" /\ tstate[b] = "done" /\ tstate[c] = "done"
          /\ Greater(Computed(a).error, max_error)
          /\ ~Greater(Computed(b).error, max_error)
          /\ Abs(Computed(b).shift[1]) > max_shift_pixels
          /\ cache[ArgEdge(a)].error = Inf /\ cache[ArgEdge(b)].error = Inf
          /\ cache[ArgEdge(c)].error = Computed(c).error

\* C11: after register_all has returned every edge of the adjacency graph has
\* exactly one alignment record in the record table, none missing, whatever
\* the interleaving of the workers and whether or not a task failed.
C11_EveryEdgeOneRecord ==
    reg_pc = "done" => DOMAIN cache = layout.edges

\* C12: for a layer of n >= 1 tiles, once ParallelLayerAligner.register_all
\* has returned, shifts[i] and errors[i] are the shift and the error that the
\* registration of tile i returned, for every i in 0 .. n-1 and whatever the
\* completion order; shifts has n rows of 2 components, errors has n entries,
\* the two assertions never fail, and no error is replaced by a sentinel.
C12_LayerResultsByTile ==
    /\ lay_pc # "assertion"
    /\ (lay_pc = "done" /\ num_images >= 1) =>
          /\ DOMAIN shifts = 0 .. (num_images - 1)
          /\ DOMAIN errors = 0 .. (num_images - 1)
          /\ \A i \in 0 .. (num_images - 1) :
                /\ tstate[i] = "done"
                /\ shifts[i] = tval[i].shift /\ Len(shifts[i]) = 2
                /\ errors[i] = tval[i].error

\* C12 witness: register_all has returned for three tiles registered out of
\* order, tiles 0 and 1 with different results, one of them a finite error.
C12_Witness ==
    /\ lay_pc = "done" /\ num_images = 3 /\ corder = <<1, 0, 2>>
    /\ errors[0] = Inf /\ errors[1] = Fin(0)
    /\ shifts[0] # shifts[1]

\* The calls that were given an array of another shape than the mosaic's.
Mismatched ==
    {i \in Calls : /\ acall[i].out # NoCanvas
                   /\ heap[acall[i].out].shape # MosaicOf(i).shape}

\* C13: a call of assemble_channel_parallel that is given an output array
\* whose shape differs from the mosaic's raises before any tile is read,
\* pasted or flipped: the array is left as the caller filled it and the
\* reader is never called.
C13_ShapeMismatchRaisesFirst ==
    \A i \in Mismatched :
        /\ as_pc[i] \in {"start", "shape_error"}
        /\ as_reads[i] = 0
        /\ as_si[i] = 0
        /\ as_out[i] = NoCanvas
        /\ heap[acall[i].out] = Filled(heap[acall[i].out].shape)

\* C13 witness: a call with two tiles to paste has raised on the shape of
\* the array it was given.
C13_Witness ==
    \E i \in Mismatched :
        /\ as_pc[i] = "shape_error"
        /\ Len(MosaicOf(i).positions) = 2
        /\ MosaicOf(i).flip_mosaic_x

\* Whether the image of a tile at pos covers cell (r, c) of the canvas,
\* rows and columns counted from 1.
Covers(pos, r, c) ==
    /\ pos[1] < r /\ r <= pos[1] + TileShape[1]
    /\ pos[2] < c /\ c <= pos[2] + TileShape[2]

\* The canvas of call i with its first k tiles pasted in index order and no
\* flip applied: a cell holds what the caller supplied followed by the tiles
\* that cover it, by increasing index.
PastedInOrder(i, k) ==
    LET m == MosaicOf(i)
        base == IF acall[i].out = NoCanvas THEN <<>> ELSE <<Prior>>
    IN  [r \in 1 .. m.shape[1] |->
            [c \in 1 .. m.shape[2] |->
                base \o SelectSeq([j \in 1 .. k |->
                                      <<acall[i].mosaic, acall[i].channel, j - 1>>],
                                  LAMBDA t : Covers(m.positions[t[3] + 1], r, c))]]

\* The rows with every row reversed (fx) and the row order reversed (fy).
Mirrored(rows, fx, fy) ==
    [r \in 1 .. Len(rows) |->
        [c \in 1 .. Len(rows[r]) |->
            rows[IF fy THEN Len(rows) + 1 - r ELSE r]
                [IF fx THEN Len(rows[r]) + 1 - c ELSE c]]]

\* C15: the axis flips are applied once, to the whole canvas, after the last
\* tile has been pasted and never per tile: during the tile loop the canvas
\* is unflipped, and the returned canvas is the unflipped assembled canvas
\* with every row reversed (flip_mosaic_x), with the row order reversed
\* (flip_mosaic_y) or both, for every canvas height.
C15_FlipsOnceAfterPasting ==
    \A i \in Calls :
        /\ as_pc[i] = "pasting" =>
              heap[as_out[i]].rows = PastedInOrder(i, as_si[i])
        /\ as_pc[i] = "returned" =>
              /\ unflipped[i] = PastedInOrder(i, Len(MosaicOf(i).positions))
              /\ heap[as_out[i]].rows =
                    Mirrored(unflipped[i], MosaicOf(i).flip_mosaic_x,
                             MosaicOf(i).flip_mosaic_y)

\* C15 witness: a canvas of three rows and two columns, with two tiles pasted
\* into different rows, has been returned flipped on both axes.
C15_Witness ==
    \E i \in Calls :
        /\ as_pc[i] = "returned"
        /\ MosaicOf(i).flip_mosaic_x /\ MosaicOf(i).flip_mosaic_y
        /\ MosaicOf(i).shape = <<3, 2>>
        /\ MosaicOf(i).positions = <<(<<0, 1>>), (<<1, 0>>)>>
        /\ heap[as_out[i]].rows # unflipped[i]

\* C14: every write task pastes its tiles in increasing tile-index order, so
\* that, whatever the scheduling of the workers and whichever other write
\* tasks run at the same time, its canvas during the tile loop holds the
\* first si tiles pasted in index order and the plane it writes is the one
\* canvas that its tile set, positions and flips determine.
C14_PastesInTileOrder ==
    /\ \A i \in Calls :
          as_pc[i] = "pasting" =>
              heap[as_out[i]].rows = PastedInOrder(i, as_si[i])
    /\ \A pl \in tiff_writes :
          pl.data = Mirrored(PastedInOrder(pl.task,
                                           Len(MosaicOf(pl.task).positions)),
                             MosaicOf(pl.task).flip_mosaic_x,
                             MosaicOf(pl.task).flip_mosaic_y)

\* C14 witness: two write tasks of a mosaic whose two tiles overlap ran on two
\* workers, the second finished first, and both planes are written.
C14_Witness ==
    /\ wr_pc = "executing" /\ n_workers = 2
    /\ Len(corder) >= 2 /\ corder[1] = 1 /\ corder[2] = 0
    /\ Cardinality(tiff_writes) >= 2
    /\ \E pl \in tiff_writes : \E r \in DOMAIN pl.data :
          \E c \in DOMAIN pl.data[r] : Len(pl.data[r][c]) = 2

\* The (cycle, channel) pairs: cycle over the mosaics, channel over the
\* channels of that mosaic.
CycleChannelPairs ==
    UNION { {<<cy - 1, ch>> : ch \in 0 .. (mosaics[cy].channels - 1)} :
                cy \in DOMAIN mosaics }

\* C16: run builds one write task for every (cycle, channel) pair, none
\* missing and none twice; a task assembles the mosaic of its cycle for its
\* channel and writes the assembled canvas as one plane to
\* path_format.format(cycle, channel); run returns only after all tasks have
\* finished.
C16_OneTaskPerCycleChannel ==
    wr_pc # "start" =>
        /\ Len(wargs) = nargs
        /\ \A k \in DOMAIN wargs : <<wargs[k].cycle, wargs[k].channel>> \in CycleChannelPairs
        /\ \A pr \in CycleChannelPairs :
              Cardinality({k \in DOMAIN wargs :
                              wargs[k].cycle = pr[1] /\ wargs[k].channel = pr[2]}) = 1
        /\ \A i \in Calls :
              /\ acall[i].mosaic = WArg(i).cycle + 1
              /\ acall[i].channel = WArg(i).channel
        /\ \A pl \in tiff_writes :
              /\ pl.path = Format(path_format, WArg(pl.task).cycle, WArg(pl.task).channel)
              /\ pl.data = heap[as_out[pl.task]].rows
              /\ as_pc[pl.task] = "written"
        /\ \A i \in Tasks :
              Cardinality({pl \in tiff_writes : pl.task = i}) =
                  IF i \in Calls /\ as_pc[i] = "written" THEN 1 ELSE 0
        /\ \A i \in Tasks : tstate[i] = "done" => as_pc[i] = "written"
        /\ wr_pc = "done" => AllFinished

\* C16 witness: run has returned for two cycles with two channels and one,
\* all three tasks having written their plane.
C16_Witness ==
    /\ wr_pc = "done" /\ Len(mosaics) = 2 /\ nargs = 3
    /\ Cardinality(tiff_writes) = 3
    /\ \A i \in Tasks : tstate[i] = "done"

\* C17: no canvas is written by two tasks: every write task pastes into an
\* array that it allocated itself, no two tasks refer to the same array and
\* no other task ever writes to it, in every interleaving of the tasks.
C17_CanvasPrivate ==
    /\ \A k \in DOMAIN heap : Cardinality(writers[k]) <= 1
    /\ \A i \in Calls : as_out[i] # NoCanvas => writers[as_out[i]] = {i}
    /\ \A i \in Calls, j \in Calls :
          (i # j /\ as_out[i] # NoCanvas) => as_out[i] # as_out[j]

\* C17 witness: two write tasks are inside their tile loops at the same
\* time, each with one tile pasted and one still to paste.
C17_Witness ==
    /\ wr_pc = "executing"
    /\ \E i \in Calls, j \in Calls :
          /\ i # j
          /\ as_pc[i] = "pasting" /\ as_pc[j] = "pasting"
          /\ as_si[i] = 1 /\ as_si[j] = 1
          /\ Len(MosaicOf(i).positions) = 2 /\ Len(MosaicOf(j).positions) = 2

\* C18: in both executor variants the progress count only grows, by exactly
\* one at a time and once for each completed task the loop receives; it never
\* exceeds N nor the number of finished tasks and equals N when the call
\* returns normally. It is updated by the calling thread only, in a step in
\* which no task changes state, and a worker is never kept from starting or
\* finishing a task, wherever the calling thread is.
C18_ProgressCount ==
    /\ [](/\ pbar <= nargs
          /\ pbar <= Cardinality({i \in Tasks : Finished(i)})
          /\ pbar = Len(yorder) - (IF exc = NoTask THEN 0 ELSE 1)
          /\ cpc = "returned" => pbar = nargs
          /\ \A i \in Tasks :
                /\ tstate[i] = "running" =>
                      ENABLED TaskRaises(i) /\ ENABLED TaskReturns(i, "a")
                /\ (/\ tstate[i] = "pending"
                    /\ \A j \in Tasks : j < i => tstate[j] # "pending"
                    /\ Cardinality(Running) < n_workers) => ENABLED StartTask(i))
    /\ [][pbar' # pbar =>
             /\ pbar' = pbar + 1
             /\ cpc = "iterate"
             /\ Len(yorder') = Len(yorder) + 1
             /\ Finished(yorder'[Len(yorder')])
             /\ yorder'[Len(yorder')] \notin Yielded
             /\ tstate' = tstate]_vars

\* C18 witness: an unordered call of three tasks has returned with the count
\* at three, one of the tasks having raised, and the tasks finished out of
\* submission order.
C18_Witness ==
    /\ variant = "unordered" /\ cpc = "returned"
    /\ nargs = 3 /\ pbar = 3
    /\ Failed # {} /\ corder[1] = 1

\* The smaller side of the nominal intersection of edge e.
SmallerSide(e) ==
    IF IntersectionShape(e)[1] <= IntersectionShape(e)[2]
    THEN IntersectionShape(e)[1]
    ELSE IntersectionShape(e)[2]

\* C19 as stated: with at least two edges the strip width w is the smallest
\* overlap dimension of all edges, the minimum over the edges of the smaller
\* side of the edge's nominal intersection.
C19_WidthIsSmallestOverlap ==
    (Cardinality(layout.edges) >= 2 /\ ct_pc # "start") =>
        /\ \E e \in layout.edges : w = SmallerSide(e)
        /\ \A e \in layout.edges : w <= SmallerSide(e)

\* C19 amended: with at least two edges the strip width w is the largest,
\* over the edges, of the smaller side of the edge's nominal intersection.
C19_WidthIsLargestOfSmallerSides ==
    (Cardinality(layout.edges) >= 2 /\ ct_pc # "start") =>
        /\ \E e \in layout.edges : w = SmallerSide(e)
        /\ \A e \in layout.edges : SmallerSide(e) <= w
        /\ max_offset = size0 - w

\* C19 witness: the sampling runs on the column of three tiles, whose two
\* overlaps are 1 and 2 rows high, with strips 2 wide.
C19_Witness ==
    /\ ct_pc = "sampling" /\ layout.name = "column"
    /\ w = 2 /\ pair_i > 0

\* The edge aligner has computed its threshold.
ThresholdComputed == ps_pc \in {"threshold", "registered", "aligned", "done"}

\* C20 as stated: the thumbnail step is skipped exactly when the layer has
\* only one tile: no thumbnail and no tile read for it on a single-tile
\* layer; on a layer of more than one tile the thumbnail is built before the
\* threshold is computed (the aligner arguments not turning it off).
C20_ThumbnailSkippedIffOneTile ==
    args_thumbnail # "false" =>
        /\ layout.num_tiles = 1 => (~thumbnail_built /\ thumbnail_reads = 0)
        /\ (layout.num_tiles > 1 /\ ThresholdComputed) => thumbnail_built

\* C20 amended: the thumbnail step is skipped when there is only one input
\* file, whatever the number of tiles, and when the aligner arguments turn it
\* off: then no thumbnail is built and no tile is read for it. With more than
\* one file and the step not turned off the thumbnail is built, with one read
\* per tile, before the threshold is computed.
C20_ThumbnailSkippedIffOneFile ==
    /\ (num_files = 1 \/ args_thumbnail = "false") =>
          (~thumbnail_built /\ thumbnail_reads = 0)
    /\ (num_files > 1 /\ args_thumbnail # "false" /\ ThresholdComputed) =>
          (thumbnail_built /\ thumbnail_reads = layout.num_tiles)

\* C20 witness: with two files of a single-tile layer the threshold has been
\* computed after the thumbnail was built.
C20_Witness ==
    /\ ps_pc = "threshold" /\ num_files = 2
    /\ layout.num_tiles = 1
    /\ thumbnail_built /\ thumbnail_reads = 1

\* C21: the rejection pass changes the error of rejected records and nothing
\* else: every record keeps its computed shift, the keys of the record table
\* and the edges of the graph stay as they were, max_error is not modified,
\* and all_errors holds the errors as they were computed, before any was set
\* to infinity.
C21_RejectionFrame ==
    /\ [](reg_pc = "done" =>
            /\ DOMAIN all_errors = DOMAIN cache
            /\ \A k \in Tasks : tstate[k] = "done" =>
                  /\ cache[ArgEdge(k)].shift = Computed(k).shift
                  /\ all_errors[ArgEdge(k)] = Computed(k).error)
    /\ [][(reg_pc = "executing" /\ reg_pc' = "done") =>
             /\ DOMAIN cache' = DOMAIN cache
             /\ layout' = layout
             /\ max_error' = max_error
             /\ all_errors' = [e \in DOMAIN cache |-> cache[e].error]
             /\ \A e \in DOMAIN cache :
                   /\ cache'[e].shift = cache[e].shift
                   /\ cache'[e].error \in {cache[e].error, Inf}]_vars

\* C21 witness: after the rejection pass a record rejected for its shift has
\* infinite error in the table while all_errors holds its finite error, and
\* another record is kept.
C21_Witness ==
    /\ reg_pc = "done"
    /\ \E e \in DOMAIN cache, f \in DOMAIN cache :
          /\ cache[e].error = Inf /\ all_errors[e] # Inf
          /\ Abs(cache[e].shift[1]) > max_shift_pixels
          /\ cache[f].error # Inf

\* C22: __exit__ exits the report before the client and exits the client even
\* when the report's exit raises: once __exit__ has returned or raised, the
\* client and the report that __enter__ entered have each been exited exactly
\* once, the report first; before that neither is exited twice and the client
\* is never exited ahead of the report.
C22_ReportExitsBeforeClient ==
    /\ Cardinality({i \in DOMAIN ds_events : ds_events[i] = ReportExit}) <= 1
    /\ Cardinality({i \in DOMAIN ds_events : ds_events[i] = ClientExit}) <= 1
    /\ \A i \in DOMAIN ds_events : ds_events[i] = ClientExit =>
          \E j \in 1 .. (i - 1) : ds_events[j] = ReportExit
    /\ ds_pc \in {"exited", "exit_raised"} =>
          ds_events = <<ClientEnter, ReportEnter, ReportExit, ClientExit>>

\* The report's exit raised and the client was exited all the same.
C22_Witness ==
    /\ ds_pc = "exit_raised"
    /\ report_raised
    /\ ds_raised = "report"
    /\ ds_events[Len(ds_events)] = ClientExit

\* C23: every strip compute_threshold samples lies inside its tile: max_offset
\* is the tile height less w, each recorded offset o has 0 <= o < max_offset,
\* so o + w is at most the tile height and the slice [o : o + w] that register
\* reads has exactly w rows; a draw is made only with max_offset >= 1.
C23_StripsInsideTile ==
    /\ (pair_i > 0 \/ current_try > 0 \/ written # NoRow) =>
          /\ Cardinality(Edges) >= 2
          /\ max_offset = size0 - w
          /\ max_offset >= 1
    /\ written # NoRow =>
          \A c \in 3 .. 4 :
             /\ 0 <= written[c]
             /\ written[c] < max_offset
             /\ written[c] + w <= size0
             /\ Cardinality(StripRows(written[c])) = w

\* The lowest strip that can be drawn is recorded, next to one at the top of
\* its tile.
C23_Witness ==
    /\ written # NoRow
    /\ max_offset >= 2
    /\ written[3] = max_offset - 1
    /\ written[3] + w = size0 - 1
    /\ written[4] = 0

\* Thread t is inside the with block of read.
InWith(t) == rpc[t] \in {"locked", "inread", "leaving"}

\* C24: the reader lock is one lock for all instances and is released on every
\* exit from read: the lock is held exactly by the thread inside the with
\* block, so a read that failed has not left it held; two threads are never
\* inside the with block together, on different readers no more than on the
\* same one; and a thread that waits for the lock gets it in the end, every
\* underlying read terminating.
C24_LockSharedAndReleased ==
    /\ [](\A t \in Threads : lock = t <=> InWith(t))
    /\ [](\A t \in Threads :
            (rraised[t] /\ rpc[t] = "idle") => lock # t)
    /\ [](\A t \in Threads, u \in Threads :
            (t # u /\ rreader[t] # rreader[u]) => ~(InWith(t) /\ InWith(u)))
    /\ \A t \in Threads : (rpc[t] = "waiting") ~> (rpc[t] = "locked")

\* A read has failed and its thread is out of read, while a thread reading
\* through another reader instance holds the lock and a third one waits.
C24_Witness ==
    \E t \in Threads, u \in Threads, v \in Threads :
       /\ rpc[t] = "idle" /\ rraised[t]
       /\ lock = u /\ rpc[u] = "inread"
       /\ rreader[u] # rreader[t]
       /\ rpc[v] = "waiting"

\* The rows the sampling loop writes from pair i on when its random state is
\* seeded 0 and has produced k numbers, try tries into pair i.
RECURSIVE SeededRows(_, _, _)
SeededRows(i, try, k) ==
    IF i >= n THEN <<>>
    ELSE LET row == StreamRow(0, k)
         IN  IF Accepts(row[1], row[2], row[3], row[4]) \/ Exhausted(try)
             THEN <<row>> \o SeededRows(i + 1, 0, k + 4)
             ELSE SeededRows(i, try + 1, k + 4)

\* The error of every such row, in sample order.
SeededErrors == [i \in 1 .. n |-> StripError(SeededRows(0, 0, 0)[i])]

\* C25: with randomize False, a run of compute_threshold on a layer yields the
\* pairs and offsets that seed 0 fixes, the errors of these rows in sample
\* order and the percentile of these errors, whatever the order in which the
\* worker threads ran and finished the register tasks: any two runs on the
\* same layer agree on all three.
C25_SeededRunsAgree ==
    /\ (randomize = FALSE /\ ct_pc \in {"sampling", "executing", "done"}
           /\ ~TooFewEdges) =>
          /\ pairs = SubSeq(SeededRows(0, 0, 0), 1, Len(pairs))
          /\ ct_pc \in {"executing", "done"} => pairs = SeededRows(0, 0, 0)
          /\ ct_pc = "done" =>
                /\ errors_negative_sampled = SeededErrors
                /\ max_error = FinHundredths(Percentile(SeededErrors,
                                                       FalsePositivePercent))
    /\ (ct_pc = "done" /\ TooFewEdges) =>
          /\ pairs = <<>>
          /\ errors_negative_sampled = <<>>
          /\ max_error = Inf

\* A seeded run has ended in which two register tasks with different errors
\* finished in the reverse of their sample order.
C25_Witness ==
    /\ ct_pc = "done"
    /\ randomize = FALSE
    /\ \E a \in DOMAIN corder, b \in DOMAIN corder :
          /\ a < b
          /\ corder[a] > corder[b]
          /\ errors_negative_sampled[corder[a] + 1]
                # errors_negative_sampled[corder[b] + 1]

====
